---- MODULE Spec2Model ----
(***************************************************************************)
(* Interrupt subsystem of the PIC18F4620 bare-metal drivers, flat          *)
(* (compatibility) mode: INTERRUPT_PRIORITY_LEVELS_ENABLE is left          *)
(* undefined in mcal_interrupt_gen_cfg.h, so the preprocessor selects the  *)
(* single-vector Interrupt_Manager and the GIE/PEIE branch of every Init.  *)
(*                                                                         *)
(* The state is the special-function-register bits the interrupt code      *)
(* reads and writes, the drivers' static callback pointers, the            *)
(* RBx_ISR_Flag edge memory, the position of the dispatcher and of the     *)
(* foreground call in progress.  Hardware is the environment: it raises    *)
(* flags and changes pin levels at any moment.                             *)
(***************************************************************************)
EXTENDS Integers, Sequences, FiniteSets, TLC

\* ------------------------------------------------------------------------
\* Bounds of the model
\* ------------------------------------------------------------------------
MaxEvents == 2
MaxCalls == 2
MaxPinEvents == 2
MaxRBxCalls == 1
MaxInitCalls == 2
MaxInitEvents == 2
MaxReplaceCalls == 3
MaxReplaceEvents == 1
MaxLiveCalls == 3
MaxErrCalls == 2
MaxErrEvents == 1
MaxPrioCalls == 2
MaxPrioEvents == 2
MaxNestCalls == 3
MaxNestEvents == 2
MaxGroupCalls == 3
MaxGroupEvents == 3
MaxTmr1Calls == 3
MaxTmr1Events == 2
MaxUsartCalls == 3
MaxUsartEvents == 2

\* ------------------------------------------------------------------------
\* Program constants
\* ------------------------------------------------------------------------
INTERRUPT_ENABLE == 1
INTERRUPT_DISABLE == 0
INTERRUPT_OCCUR == 1
INTERRUPT_NOT_OCCUR == 0
E_OK == 1
E_NOT_OK == 0
Interrupt_Falling_Edge == 0
Interrupt_Rising_Edge == 1
Interrupt_Low_Priority == 0
Interrupt_High_Priority == 1
GPIO_DIRECTION_OUTPUT == 0
GPIO_DIRECTION_INPUT == 1
PORT_PIN_MAX_NUMBER == 8
NULL == "NULL"

\* A NULL object pointer passed where a configuration structure is expected.
NullPtr == [null |-> TRUE]

IsNull(ptr) == "null" \in DOMAIN ptr

INTxSources == {"INT0", "INT1", "INT2"}
RBPins == {"RB4", "RB5", "RB6", "RB7"}
Peripherals == {"ADC", "TMR0", "TMR1", "TMR2", "TMR3", "CCP1", "CCP2",
                "EUSART_TX", "EUSART_RX", "SPI", "I2C", "I2C_BUSCOL"}

\* Name of the enable/flag bit pair of a source (xxIE in INTCON/INTCON3/PIE1/
\* PIE2, xxIF in INTCON/INTCON3/PIR1/PIR2).  The four on-change pins share
\* RBIE/RBIF; SPI and I2C share SSPIE/SSPIF.
BitOf(src) ==
    CASE src \in INTxSources -> src
      [] src \in RBPins -> "RB"
      [] src = "ADC" -> "AD"
      [] src = "EUSART_TX" -> "TX"
      [] src = "EUSART_RX" -> "RC"
      [] src \in {"SPI", "I2C"} -> "SSP"
      [] src = "I2C_BUSCOL" -> "BCL"
      [] OTHER -> src

Bits == {BitOf(s) : s \in INTxSources \cup RBPins \cup Peripherals}

\* Bits of PIE1/PIE2, which hardware gates with PEIE in compatibility mode;
\* INT0IE, INT1IE, INT2IE, RBIE and TMR0IE live in INTCON/INTCON3.
PEIEGatedBits == Bits \ {"INT0", "INT1", "INT2", "RB", "TMR0"}

VARIABLES
    mcu,      \* registers, callback pointers and edge memory
    isr,      \* position of Interrupt_Manager
    pass,     \* history of the dispatcher pass in progress
    fg,       \* foreground call in progress
    last,     \* Std_ReturnType returned by the last foreground call
    moved,    \* on-change pins whose level has changed since reset
    stack,    \* suspended dispatcher activations, innermost first
    hist,     \* history of the foreground calls
    evLeft,   \* hardware events still allowed by the bound
    callsLeft \* foreground calls still allowed by the bound

vars == <<mcu, isr, pass, fg, last, moved, stack, hist, evLeft, callsLeft>>

\* Sources with a priority bit (INT1IP, INT2IP, RBIP); INT0 is always high.
PriorityBits == {"INT1", "INT2", "RB"}

\* State after reset and static initialisation.  GIE and PEIE are the bits
\* named GIEH and GIEL when the priority feature (IPEN) is on.
ResetState(levels) ==
    [ xIE |-> [b \in Bits |-> 0],
      xIF |-> [b \in Bits |-> 0],
      INTEDG |-> [s \in INTxSources |-> 1],
      GIE |-> 0,
      PEIE |-> 0,
      IPEN |-> 0,
      xIP |-> [b \in PriorityBits |-> 1],
      TRISB |-> [n \in 0..7 |-> 1],
      PORTB |-> levels,
      RBx_ISR_Flag |-> [p \in RBPins |-> 1],
      INTx_InterruptHandler |-> [s \in INTxSources |-> NULL],
      RBx_InterruptHandler_High |-> [p \in RBPins |-> NULL],
      RBx_InterruptHandler_Low |-> [p \in RBPins |-> NULL],
      PER_InterruptHandler |-> [p \in Peripherals |-> NULL],
      SPEN |-> 0,
      TXEN |-> 0,
      CREN |-> 0,
      TRMT |-> 1,
      TXREG |-> 0,
      TMR1ON |-> 0,
      TMR1H |-> 0,
      TMR1L |-> 0,
      timer1_preload |-> 0 ]

\* ------------------------------------------------------------------------
\* Interrupt_Manager (flat mode): the (enable, flag) tests in source order.
\* Entries of the twelve internal peripheral sources other than ADC are
\* commented out in the source and therefore not part of the compiled scan.
\* ------------------------------------------------------------------------
Entry(src, level) == [src |-> src, level |-> level]

\* A dispatcher that never tests INT2.
ScanList_WithoutINT2 ==
    << Entry("INT0", 1), Entry("INT1", 1),
       Entry("RB4", 1), Entry("RB4", 0), Entry("RB5", 1), Entry("RB5", 0),
       Entry("RB6", 1), Entry("RB6", 0), Entry("RB7", 1), Entry("RB7", 0),
       Entry("ADC", 1) >>

\* A scan that tests INT1 before INT0 and the ADC before the on-change pins.
ScanList_Reordered ==
    << Entry("INT1", 1), Entry("INT0", 1), Entry("INT2", 1),
       Entry("ADC", 1),
       Entry("RB4", 1), Entry("RB4", 0),
       Entry("RB5", 1), Entry("RB5", 0),
       Entry("RB6", 1), Entry("RB6", 0),
       Entry("RB7", 1), Entry("RB7", 0) >>

ScanList ==
    << Entry("INT0", 1), Entry("INT1", 1), Entry("INT2", 1),
       Entry("RB4", 1), Entry("RB4", 0),
       Entry("RB5", 1), Entry("RB5", 0),
       Entry("RB6", 1), Entry("RB6", 0),
       Entry("RB7", 1), Entry("RB7", 0),
       Entry("ADC", 1) >>

ScanLen == Len(ScanList)

\* Interrupt_ManagerHigh and Interrupt_Managerlow of the priority build.
ScanListHigh == << Entry("INT0", 1), Entry("INT2", 1) >>

ScanListLow == << Entry("INT1", 1) >>

\* The `if` of one internal peripheral source taken alone, as written in
\* Interrupt_Manager (the branches other than the ADC's are commented out
\* there): it tests the source's pair and calls its leaf routine.
ScanListOnly(p) == << Entry(p, 1) >>

\* The list of tests of a dispatcher.
Scan(vec) ==
    CASE vec = "flat" -> ScanList
      [] vec = "high" -> ScanListHigh
      [] vec = "low" -> ScanListLow
      [] OTHER -> ScanListOnly(vec)

\* A scan that dispatches an enabled source whether or not its flag is set.
TestCond_IgnoresFlag(m, e) ==
    /\ m.xIE[BitOf(e.src)] = INTERRUPT_ENABLE
    /\ e.src \in RBPins =>
          /\ m.PORTB[e.src] = e.level
          /\ m.RBx_ISR_Flag[e.src] = e.level

\* A scan that infers the edge from the pin level alone.
TestCond_LevelOnly(m, e) ==
    /\ m.xIE[BitOf(e.src)] = INTERRUPT_ENABLE
    /\ m.xIF[BitOf(e.src)] = INTERRUPT_OCCUR
    /\ e.src \in RBPins => m.PORTB[e.src] = e.level

\* The condition of one `if` of Interrupt_Manager.
TestCond(m, e) ==
    /\ m.xIE[BitOf(e.src)] = INTERRUPT_ENABLE
    /\ m.xIF[BitOf(e.src)] = INTERRUPT_OCCUR
    /\ e.src \in RBPins =>
          /\ m.PORTB[e.src] = e.level
          /\ m.RBx_ISR_Flag[e.src] = e.level

\* A scan that leaves the edge memory as it was.
EdgeMemoryUpdate_Missing(m, e) == m

\* RBx_ISR_Flag = 0 before RBx_ISR(1), RBx_ISR_Flag = 1 before RBx_ISR(0).
EdgeMemoryUpdate(m, e) ==
    IF e.src \in RBPins
    THEN [m EXCEPT !.RBx_ISR_Flag[e.src] = 1 - e.level]
    ELSE m

\* The callback pointer the leaf routine calls, NULL when it calls none.
LeafHandler(m, e) ==
    IF e.src \in INTxSources THEN m.INTx_InterruptHandler[e.src]
    ELSE IF e.src \in RBPins THEN
        IF m.RBx_InterruptHandler_High[e.src] # NULL /\ e.level = 1
        THEN m.RBx_InterruptHandler_High[e.src]
        ELSE IF m.RBx_InterruptHandler_Low[e.src] # NULL /\ e.level = 0
        THEN m.RBx_InterruptHandler_Low[e.src]
        ELSE NULL
    ELSE m.PER_InterruptHandler[e.src]

\* A leaf routine that leaves its flag set.
LeafClearFlag_Missing(m, e) == m

\* A leaf routine that clears its flag only when a callback is registered.
LeafClearFlag_OnlyWithHandler(m, e) ==
    IF LeafHandler(m, e) = NULL THEN m
    ELSE [m EXCEPT !.xIF[BitOf(e.src)] = 0]

\* Leaf routines that all clear their flag, those of the EUSART included.
LeafClearFlag_FlagOnly(m, e) == [m EXCEPT !.xIF[BitOf(e.src)] = 0]

\* First statement of the leaf routine: xxx_CLEAR_FLAG().  EUSART_TX_ISR
\* clears the enable bit TXIE instead, and EUSART_RX_ISR has no such
\* statement.
LeafClearFlag(m, e) ==
    CASE e.src = "EUSART_TX" -> [m EXCEPT !.xIE[BitOf(e.src)] = 0]
      [] e.src = "EUSART_RX" -> m
      [] OTHER -> [m EXCEPT !.xIF[BitOf(e.src)] = 0]

\* Hardware vectors to the ISR when GIE is set and an enabled source is
\* pending (PIE1/PIE2 sources also need PEIE).
Pending(m) ==
    \E b \in Bits : /\ m.xIE[b] = 1
                    /\ m.xIF[b] = 1
                    /\ (b \in PEIEGatedBits => m.PEIE = 1)

\* TMR1H = (uint8)(v >> 8); TMR1L = (uint8)(v); for a uint16 v.
TMR1_Load(m, v) ==
    [m EXCEPT !.TMR1H = (v \div 256) % 256, !.TMR1L = v % 256]

\* The statements of a leaf routine that follow the call of the callback:
\* TMR1_ISR writes the stored preload to TMR1H:TMR1L there.
LeafEpilogue(m, e) ==
    IF e.src = "TMR1" THEN TMR1_Load(m, m.timer1_preload) ELSE m

IdleIsr == [phase |-> "idle", pos |-> 0, vec |-> "none"]
NoPass == [xIE |-> {}, xIF |-> {}, mem |-> << >>, levels |-> << >>,
           hw |-> {}, hwLeaf |-> {}, trace |-> << >>, nested |-> {}]
IdleFg == [op |-> "idle", cfg |-> NullPtr, step |-> 0, ret |-> E_OK, hw |-> {}]

SetBits(f) == {b \in Bits : f[b] = 1}

AfterLeaf(pos) == [isr EXCEPT !.phase = "test", !.pos = pos + 1]

\* The `if` the running dispatcher is at.
CurEntry == Scan(isr.vec)[isr.pos]

\* The history of a pass that starts in state m.
NewPass(m) ==
    [NoPass EXCEPT !.xIE = SetBits(m.xIE), !.xIF = SetBits(m.xIF),
                   !.mem = m.RBx_ISR_Flag, !.levels = m.PORTB]

\* Interrupt entry: hardware clears GIE and jumps to Interrupt_Manager.
ISR_Enter ==
    /\ isr.phase = "idle"
    /\ mcu.GIE = 1
    /\ Pending(mcu)
    /\ mcu' = [mcu EXCEPT !.GIE = 0]
    /\ isr' = [phase |-> "test", pos |-> 1, vec |-> "flat"]
    /\ pass' = NewPass(mcu)
    /\ UNCHANGED <<fg, last, moved, stack, hist, evLeft, callsLeft>>

\* The leaf routine of the internal peripheral source p is reached through
\* its `if` alone.
ISR_EnterLeaf(p) ==
    /\ isr.phase = "idle"
    /\ mcu.GIE = 1
    /\ BitOf(p) \in PEIEGatedBits => mcu.PEIE = 1
    /\ mcu.xIE[BitOf(p)] = 1
    /\ mcu.xIF[BitOf(p)] = 1
    /\ mcu' = [mcu EXCEPT !.GIE = 0]
    /\ isr' = [phase |-> "test", pos |-> 1, vec |-> p]
    /\ pass' = NewPass(mcu)
    /\ UNCHANGED <<fg, last, moved, stack, hist, evLeft, callsLeft>>

\* Interrupt entry while Interrupt_Manager is running: possible once GIE has
\* been set again before the return; the running activation is suspended.
ISR_EnterNested ==
    /\ isr.phase # "idle"
    /\ mcu.GIE = 1
    /\ Pending(mcu)
    /\ mcu' = [mcu EXCEPT !.GIE = 0]
    /\ stack' = << [isr |-> isr, pass |-> pass] >> \o stack
    /\ isr' = [phase |-> "test", pos |-> 1, vec |-> "flat"]
    /\ pass' = NewPass(mcu)
    /\ UNCHANGED <<fg, last, moved, hist, evLeft, callsLeft>>

\* Priority build.  A source requests the high-priority vector when its
\* priority bit is 1 (INT0 always) and the low-priority vector when it is 0.
ExternalBits == {"INT0", "INT1", "INT2", "RB"}

SourcePriority(m, b) == IF b = "INT0" THEN 1 ELSE m.xIP[b]

PendingAt(m, level) ==
    \E b \in ExternalBits : /\ m.xIE[b] = 1
                             /\ m.xIF[b] = 1
                             /\ SourcePriority(m, b) = level

\* High-priority interrupt entry: hardware clears GIEH and jumps to
\* Interrupt_ManagerHigh; a low-priority activation in progress is
\* suspended.
ISR_EnterHigh ==
    /\ mcu.IPEN = 1
    /\ mcu.GIE = 1
    /\ isr.vec # "high"
    /\ PendingAt(mcu, 1)
    /\ mcu' = [mcu EXCEPT !.GIE = 0]
    /\ stack' = IF isr.phase = "idle" THEN stack
                ELSE << [isr |-> isr, pass |-> pass] >> \o stack
    /\ isr' = [phase |-> "test", pos |-> 1, vec |-> "high"]
    /\ pass' = NewPass(mcu)
    /\ UNCHANGED <<fg, last, moved, hist, evLeft, callsLeft>>

\* Low-priority interrupt entry: hardware clears GIEL and jumps to
\* Interrupt_Managerlow.
ISR_EnterLow ==
    /\ mcu.IPEN = 1
    /\ mcu.GIE = 1
    /\ mcu.PEIE = 1
    /\ isr.phase = "idle"
    /\ PendingAt(mcu, 0)
    /\ ~PendingAt(mcu, 1)
    /\ mcu' = [mcu EXCEPT !.PEIE = 0]
    /\ isr' = [phase |-> "test", pos |-> 1, vec |-> "low"]
    /\ pass' = NewPass(mcu)
    /\ UNCHANGED <<fg, last, moved, stack, hist, evLeft, callsLeft>>

\* One `if` of Interrupt_Manager: when its condition holds the edge memory is
\* written (on-change entries) and the leaf routine is entered, otherwise
\* the scan moves to the next `if`.
ISR_Test ==
    /\ isr.phase = "test"
    /\ isr.pos <= Len(Scan(isr.vec))
    /\ IF TestCond(mcu, CurEntry)
       THEN /\ mcu' = EdgeMemoryUpdate(mcu, CurEntry)
            /\ isr' = [isr EXCEPT !.phase = "leaf"]
       ELSE /\ mcu' = mcu
            /\ isr' = [isr EXCEPT !.pos = @ + 1]
    /\ UNCHANGED <<pass, fg, last, moved, stack, hist, evLeft, callsLeft>>

\* The end of Interrupt_Manager is reached.
ISR_ScanEnd ==
    /\ isr.phase = "test"
    /\ isr.pos > Len(Scan(isr.vec))
    /\ isr' = [isr EXCEPT !.phase = "ret", !.pos = 0]
    /\ UNCHANGED <<mcu, pass, fg, last, moved, stack, hist, evLeft, callsLeft>>

\* The leaf routine clears its flag.
ISR_LeafClear ==
    /\ isr.phase = "leaf"
    /\ mcu' = LeafClearFlag(mcu, CurEntry)
    /\ isr' = [isr EXCEPT !.phase = "call"]
    /\ pass' = [pass EXCEPT !.hwLeaf = {}]
    /\ UNCHANGED <<fg, last, moved, stack, hist, evLeft, callsLeft>>

\* The leaf routine calls the registered callback, if any; without one it
\* runs to its end.
ISR_LeafCall ==
    /\ isr.phase = "call"
    /\ LET e == CurEntry
           h == LeafHandler(mcu, e) IN
         /\ pass' = [pass EXCEPT !.trace = Append(@, [src |-> e.src, level |-> e.level, cb |-> h])]
         /\ isr' = IF h # NULL THEN [isr EXCEPT !.phase = "cb"] ELSE AfterLeaf(isr.pos)
         /\ mcu' = IF h # NULL THEN mcu ELSE LeafEpilogue(mcu, e)
    /\ UNCHANGED <<fg, last, moved, stack, hist, evLeft, callsLeft>>

\* A leaf routine that clears its flag once more after the callback.
ISR_CallbackReturn_ClearsFlag ==
    /\ isr.phase = "cb"
    /\ mcu' = LeafClearFlag(LeafEpilogue(mcu, CurEntry), CurEntry)
    /\ isr' = AfterLeaf(isr.pos)
    /\ UNCHANGED <<pass, fg, last, moved, stack, hist, evLeft, callsLeft>>

\* The callback returns to the leaf routine, which runs to its end and
\* returns to the scan.
ISR_CallbackReturn ==
    /\ isr.phase = "cb"
    /\ mcu' = LeafEpilogue(mcu, CurEntry)
    /\ isr' = AfterLeaf(isr.pos)
    /\ UNCHANGED <<pass, fg, last, moved, stack, hist, evLeft, callsLeft>>

\* What a suspended activation remembers of one that ran nested in it.
Nested(act, trace) == [at |-> act.isr, vec |-> isr.vec, trace |-> trace]

\* RETFIE: return from the dispatcher; the global enable bit that was cleared
\* on entry is set again (GIEL for the low-priority vector, GIE/GIEH
\* otherwise) and the interrupted code resumes.
ISR_Return ==
    /\ isr.phase = "ret"
    /\ mcu' = IF isr.vec = "low" THEN [mcu EXCEPT !.PEIE = 1]
                                 ELSE [mcu EXCEPT !.GIE = 1]
    /\ IF stack = << >>
       THEN /\ isr' = IdleIsr
            /\ pass' = NoPass
            /\ stack' = stack
       ELSE /\ isr' = Head(stack).isr
            /\ pass' = [Head(stack).pass EXCEPT
                          !.nested = @ \cup {Nested(Head(stack), pass.trace)}]
            /\ stack' = Tail(stack)
    /\ UNCHANGED <<fg, last, moved, hist, evLeft, callsLeft>>

\* ------------------------------------------------------------------------
\* Hardware events
\* ------------------------------------------------------------------------
NoteHw(b) ==
    IF isr.phase = "idle" THEN pass
    ELSE [pass EXCEPT !.hw = @ \cup {b}, !.hwLeaf = @ \cup {b}]

NoteHwFg(b) ==
    IF fg.op = "idle" THEN fg ELSE [fg EXCEPT !.hw = @ \cup {b}]

\* A qualifying event of an edge-triggered or peripheral source sets its flag.
HwRaise(b) ==
    /\ evLeft > 0
    /\ mcu.xIF[b] = 0
    /\ mcu' = [mcu EXCEPT !.xIF[b] = 1]
    /\ pass' = NoteHw(b)
    /\ fg' = NoteHwFg(b)
    /\ evLeft' = evLeft - 1
    /\ UNCHANGED <<isr, last, moved, stack, hist, callsLeft>>

\* The same event where events are not counted.
HwEvent(b) ==
    /\ mcu.xIF[b] = 0
    /\ mcu' = [mcu EXCEPT !.xIF[b] = 1]
    /\ pass' = NoteHw(b)
    /\ fg' = NoteHwFg(b)
    /\ UNCHANGED <<isr, last, moved, stack, hist, evLeft, callsLeft>>

\* An on-change pin changes level: the shared flag RBIF is set.
PinEdge(p) ==
    /\ evLeft > 0
    /\ mcu' = [mcu EXCEPT !.PORTB[p] = 1 - @, !.xIF["RB"] = 1]
    /\ pass' = NoteHw("RB")
    /\ fg' = NoteHwFg("RB")
    /\ moved' = moved \cup {p}
    /\ evLeft' = evLeft - 1
    /\ UNCHANGED <<isr, last, stack, callsLeft>>

PinChange(p) == PinEdge(p) /\ UNCHANGED hist

\* The same change, remembered: the levels the pin has taken since the last
\* successful interrupt_RBx_Init for it, and the pin that changed last.
PinChangeNoted(p) ==
    /\ PinEdge(p)
    /\ hist' = [hist EXCEPT !.edges[p] = Append(@, 1 - mcu.PORTB[p]),
                            !.latest = p]

\* An on-change event at an unchanged level: a pin left its last-read level
\* and came back before the dispatcher sampled it.
RBGlitch ==
    /\ evLeft > 0
    /\ mcu.xIF["RB"] = 0
    /\ mcu' = [mcu EXCEPT !.xIF["RB"] = 1]
    /\ pass' = NoteHw("RB")
    /\ fg' = NoteHwFg("RB")
    /\ evLeft' = evLeft - 1
    /\ UNCHANGED <<isr, last, moved, stack, hist, callsLeft>>

\* ------------------------------------------------------------------------
\* External interrupt driver (mcal_externl_interrupt.c).  Every helper maps
\* the state to the new state and the Std_ReturnType it returns.
\* ------------------------------------------------------------------------
Ret(m, r) == [m |-> m, ret |-> r]

\* An enable whose default branch reports success.
Interrupt_INTx_Enable_DefaultOk(m, cfg) ==
    IF cfg.source \in INTxSources
    THEN Ret([m EXCEPT !.xIE[cfg.source] = 1], E_OK)
    ELSE Ret(m, E_OK)

Interrupt_INTx_Enable(m, cfg) ==
    IF cfg.source \in INTxSources
    THEN Ret([m EXCEPT !.xIE[cfg.source] = 1], E_OK)
    ELSE Ret(m, E_NOT_OK)

\* A disable that also forgets the registered callback.
Interrupt_INTx_Disable_AndForget(m, cfg) ==
    IF cfg.source \in INTxSources
    THEN Ret([m EXCEPT !.xIE[cfg.source] = 0,
                       !.INTx_InterruptHandler[cfg.source] = NULL], E_OK)
    ELSE Ret(m, E_NOT_OK)

Interrupt_INTx_Disable(m, cfg) ==
    IF cfg.source \in INTxSources
    THEN Ret([m EXCEPT !.xIE[cfg.source] = 0], E_OK)
    ELSE Ret(m, E_NOT_OK)

Interrupt_INTx_Edge_Init(m, cfg) ==
    IF cfg.source \in INTxSources
    THEN IF cfg.edge = Interrupt_Falling_Edge
         THEN Ret([m EXCEPT !.INTEDG[cfg.source] = 0], E_OK)
         ELSE IF cfg.edge = Interrupt_Rising_Edge
         THEN Ret([m EXCEPT !.INTEDG[cfg.source] = 1], E_OK)
         ELSE Ret(m, E_OK)
    ELSE Ret(m, E_NOT_OK)

INTERRUPT_GlobalInterruptEnable(m) == [m EXCEPT !.GIE = 1]

INTERRUPT_PeripheralInterruptEnable(m) == [m EXCEPT !.PEIE = 1]

\* pin and direction are bit-fields of 3 and 1 bits: the range checks of
\* gpio_pin_direction_initialize cannot fail for a non-NULL pin_config_t.
\* Only TRISB is part of the state; the TRIS registers of other ports are not.
gpio_pin_direction_initialize(m, pin) ==
    IF IsNull(pin) \/ pin.pin > PORT_PIN_MAX_NUMBER - 1
    THEN Ret(m, E_NOT_OK)
    ELSE IF pin.direction \in {GPIO_DIRECTION_OUTPUT, GPIO_DIRECTION_INPUT}
    THEN Ret(IF pin.port = "PORTB"
             THEN [m EXCEPT !.TRISB[pin.pin] = pin.direction]
             ELSE m, E_OK)
    ELSE Ret(m, E_NOT_OK)

Interrupt_INTx_Pin_Init(m, cfg) == gpio_pin_direction_initialize(m, cfg.mcu_pin)

Interrupt_INTx_Clear_Flag(m, cfg) ==
    IF cfg.source \in INTxSources
    THEN Ret([m EXCEPT !.xIF[cfg.source] = 0], E_OK)
    ELSE Ret(m, E_NOT_OK)

\* A setter that keeps a callback that is already registered.
INTn_SetInterruptHandler_KeepFirst(m, src, handler) ==
    IF handler = NULL \/ m.INTx_InterruptHandler[src] # NULL
    THEN Ret(m, E_NOT_OK)
    ELSE Ret([m EXCEPT !.INTx_InterruptHandler[src] = handler], E_OK)

\* A setter that stores whatever it is given, NULL included.
INTn_SetInterruptHandler_StoresNull(m, src, handler) ==
    Ret([m EXCEPT !.INTx_InterruptHandler[src] = handler], E_OK)

\* INT0_SetInterruptHandler, INT1_..., INT2_...: a NULL handler is rejected
\* and the slot keeps its value.
INTn_SetInterruptHandler(m, src, handler) ==
    IF handler = NULL
    THEN Ret(m, E_NOT_OK)
    ELSE Ret([m EXCEPT !.INTx_InterruptHandler[src] = handler], E_OK)

\* The result of INTn_SetInterruptHandler is discarded.
Interrupt_INTx_SetInterruptHandler(m, cfg) ==
    IF cfg.source \in INTxSources
    THEN Ret(INTn_SetInterruptHandler(m, cfg.source, cfg.External_InterruptHandler).m, E_OK)
    ELSE Ret(m, E_NOT_OK)

\* Statement i of the else-branch of interrupt_INTx_Init; r is the value of
\* `ret` before the statement.
INTx_Init_Steps == 8

\* interrupt_INTx_Init with the enable moved before the flag clear.
INTx_Init_Step_EnableBeforeClear(i, m, cfg, r) ==
    CASE i = 1 -> Interrupt_INTx_Disable(m, cfg)
      [] i = 2 -> Interrupt_INTx_Edge_Init(m, cfg)
      [] i = 3 -> Ret(INTERRUPT_GlobalInterruptEnable(m), r)
      [] i = 4 -> Ret(INTERRUPT_PeripheralInterruptEnable(m), r)
      [] i = 5 -> Interrupt_INTx_Pin_Init(m, cfg)
      [] i = 6 -> Interrupt_INTx_SetInterruptHandler(m, cfg)
      [] i = 7 -> Interrupt_INTx_Enable(m, cfg)
      [] i = 8 -> Interrupt_INTx_Clear_Flag(m, cfg)

INTx_Init_Step(i, m, cfg, r) ==
    CASE i = 1 -> Interrupt_INTx_Disable(m, cfg)
      [] i = 2 -> Interrupt_INTx_Edge_Init(m, cfg)
      [] i = 3 -> Ret(INTERRUPT_GlobalInterruptEnable(m), r)
      [] i = 4 -> Ret(INTERRUPT_PeripheralInterruptEnable(m), r)
      [] i = 5 -> Interrupt_INTx_Pin_Init(m, cfg)
      [] i = 6 -> Interrupt_INTx_SetInterruptHandler(m, cfg)
      [] i = 7 -> Interrupt_INTx_Clear_Flag(m, cfg)
      [] i = 8 -> Interrupt_INTx_Enable(m, cfg)

RECURSIVE INTx_Init_From(_, _, _, _)
INTx_Init_From(i, m, cfg, r) ==
    IF i > INTx_Init_Steps THEN Ret(m, r)
    ELSE LET s == INTx_Init_Step(i, m, cfg, r)
         IN INTx_Init_From(i + 1, s.m, cfg, s.ret)

interrupt_INTx_Init(m, cfg) ==
    IF IsNull(cfg) THEN Ret(m, E_NOT_OK)
    ELSE INTx_Init_From(1, m, cfg, E_OK)

interrupt_INTx_DeInit(m, cfg) ==
    IF IsNull(cfg) THEN Ret(m, E_NOT_OK)
    ELSE Interrupt_INTx_Disable(m, cfg)

\* Priority build (INTERRUPT_PRIORITY_LEVELS_ENABLE): interrupt_INTx_Init
\* sets the priority bit and enables IPEN, GIEH and GIEL in place of GIE and
\* PEIE.  GIEH and GIEL are the bits named GIE and PEIE.
Interrupt_INTx_Priority_Init(m, cfg) ==
    IF cfg.source \in {"INT1", "INT2"}
    THEN IF cfg.priority = Interrupt_High_Priority
         THEN Ret([m EXCEPT !.xIP[cfg.source] = 1], E_OK)
         ELSE IF cfg.priority = Interrupt_Low_Priority
         THEN Ret([m EXCEPT !.xIP[cfg.source] = 0], E_OK)
         ELSE Ret(m, E_OK)
    ELSE Ret(m, E_NOT_OK)

INTERRUPT_PriorityFeatureEnable(m) == [m EXCEPT !.IPEN = 1]

INTERRUPT_GlobalInterruptHighEnable(m) == [m EXCEPT !.GIE = 1]

INTERRUPT_GlobalInterruptLowEnable(m) == [m EXCEPT !.PEIE = 1]

INTx_Init_Priority_Steps == 10

INTx_Init_Priority_Step(i, m, cfg, r) ==
    CASE i = 1 -> Interrupt_INTx_Disable(m, cfg)
      [] i = 2 -> Interrupt_INTx_Edge_Init(m, cfg)
      [] i = 3 -> Interrupt_INTx_Priority_Init(m, cfg)
      [] i = 4 -> Ret(INTERRUPT_PriorityFeatureEnable(m), r)
      [] i = 5 -> Ret(INTERRUPT_GlobalInterruptHighEnable(m), r)
      [] i = 6 -> Ret(INTERRUPT_GlobalInterruptLowEnable(m), r)
      [] i = 7 -> Interrupt_INTx_Pin_Init(m, cfg)
      [] i = 8 -> Interrupt_INTx_SetInterruptHandler(m, cfg)
      [] i = 9 -> Interrupt_INTx_Clear_Flag(m, cfg)
      [] i = 10 -> Interrupt_INTx_Enable(m, cfg)

RECURSIVE INTx_Init_Priority_From(_, _, _, _)
INTx_Init_Priority_From(i, m, cfg, r) ==
    IF i > INTx_Init_Priority_Steps THEN Ret(m, r)
    ELSE LET s == INTx_Init_Priority_Step(i, m, cfg, r)
         IN INTx_Init_Priority_From(i + 1, s.m, cfg, s.ret)

interrupt_INTx_Init_Priority(m, cfg) ==
    IF IsNull(cfg) THEN Ret(m, E_NOT_OK)
    ELSE INTx_Init_Priority_From(1, m, cfg, E_OK)

\* ------------------------------------------------------------------------
\* On-change group RB4..RB7
\* ------------------------------------------------------------------------
PinName(n) ==
    CASE n = 4 -> "RB4" [] n = 5 -> "RB5" [] n = 6 -> "RB6" [] n = 7 -> "RB7"
      [] OTHER -> NULL

EXTERNAL_INTERRUPTS_RBx_ENABLE(m) == [m EXCEPT !.xIE["RB"] = 1]

EXTERNAL_INTERRUPTS_RBx_DISABLE(m) == [m EXCEPT !.xIE["RB"] = 0]

EXTERNAL_INTERRUPTS_RBx_CLEAR_FLAG(m) == [m EXCEPT !.xIF["RB"] = 0]

\* A setter that rejects NULL callbacks the way INTn_SetInterruptHandler
\* does: a slot is written only with a callback.
Interrupt_RBx_SetInterruptHandler_SkipsNull(m, cfg) ==
    IF cfg.mcu_pin.pin \in 4..7
    THEN LET p == PinName(cfg.mcu_pin.pin)
             h == cfg.External_InterruptHandler_High
             l == cfg.External_InterruptHandler_Low
         IN Ret([m EXCEPT
                   !.RBx_InterruptHandler_High[p] = IF h = NULL THEN @ ELSE h,
                   !.RBx_InterruptHandler_Low[p] = IF l = NULL THEN @ ELSE l],
                E_OK)
    ELSE Ret(m, E_NOT_OK)

\* switch(mcu_pin.pin): both slots of PIN4..PIN7 are overwritten.
Interrupt_RBx_SetInterruptHandler(m, cfg) ==
    IF cfg.mcu_pin.pin \in 4..7
    THEN Ret([m EXCEPT
                !.RBx_InterruptHandler_High[PinName(cfg.mcu_pin.pin)] =
                     cfg.External_InterruptHandler_High,
                !.RBx_InterruptHandler_Low[PinName(cfg.mcu_pin.pin)] =
                     cfg.External_InterruptHandler_Low], E_OK)
    ELSE Ret(m, E_NOT_OK)

\* A disable of the one pin of its argument: the pin's callbacks are
\* forgotten and the group stays enabled.
Interrupt_RBx_Disable_PinOnly(m, cfg) ==
    IF cfg.mcu_pin.pin \in 4..7
    THEN Ret([m EXCEPT !.RBx_InterruptHandler_High[PinName(cfg.mcu_pin.pin)] = NULL,
                       !.RBx_InterruptHandler_Low[PinName(cfg.mcu_pin.pin)] = NULL],
             E_OK)
    ELSE Ret(m, E_NOT_OK)

Interrupt_RBx_Disable(m, cfg) == Ret(EXTERNAL_INTERRUPTS_RBx_DISABLE(m), E_OK)

RBx_Init_Steps == 7

RBx_Init_Step(i, m, cfg, r) ==
    CASE i = 1 -> Ret(EXTERNAL_INTERRUPTS_RBx_DISABLE(m), r)
      [] i = 2 -> Ret(INTERRUPT_GlobalInterruptEnable(m), r)
      [] i = 3 -> Ret(INTERRUPT_PeripheralInterruptEnable(m), r)
      [] i = 4 -> Ret(EXTERNAL_INTERRUPTS_RBx_CLEAR_FLAG(m), r)
      [] i = 5 -> gpio_pin_direction_initialize(m, cfg.mcu_pin)
      [] i = 6 -> Interrupt_RBx_SetInterruptHandler(m, cfg)
      [] i = 7 -> Ret(EXTERNAL_INTERRUPTS_RBx_ENABLE(m), r)

RECURSIVE RBx_Init_From(_, _, _, _)
RBx_Init_From(i, m, cfg, r) ==
    IF i > RBx_Init_Steps THEN Ret(m, r)
    ELSE LET s == RBx_Init_Step(i, m, cfg, r)
         IN RBx_Init_From(i + 1, s.m, cfg, s.ret)

\* interrupt_RBx_Init of the priority build.
EXTERNAL_INTERRUPT_RBx_PRIORITY(m, cfg) ==
    IF cfg.priority = Interrupt_High_Priority THEN [m EXCEPT !.xIP["RB"] = 1]
    ELSE IF cfg.priority = Interrupt_Low_Priority THEN [m EXCEPT !.xIP["RB"] = 0]
    ELSE m

RBx_Init_Priority_Steps == 9

RBx_Init_Priority_Step(i, m, cfg, r) ==
    CASE i = 1 -> Ret(EXTERNAL_INTERRUPTS_RBx_DISABLE(m), r)
      [] i = 2 -> Ret(INTERRUPT_PriorityFeatureEnable(m), r)
      [] i = 3 -> Ret(INTERRUPT_GlobalInterruptHighEnable(m), r)
      [] i = 4 -> Ret(INTERRUPT_GlobalInterruptLowEnable(m), r)
      [] i = 5 -> Ret(EXTERNAL_INTERRUPT_RBx_PRIORITY(m, cfg), r)
      [] i = 6 -> Ret(EXTERNAL_INTERRUPTS_RBx_CLEAR_FLAG(m), r)
      [] i = 7 -> gpio_pin_direction_initialize(m, cfg.mcu_pin)
      [] i = 8 -> Interrupt_RBx_SetInterruptHandler(m, cfg)
      [] i = 9 -> Ret(EXTERNAL_INTERRUPTS_RBx_ENABLE(m), r)

RECURSIVE RBx_Init_Priority_From(_, _, _, _)
RBx_Init_Priority_From(i, m, cfg, r) ==
    IF i > RBx_Init_Priority_Steps THEN Ret(m, r)
    ELSE LET s == RBx_Init_Priority_Step(i, m, cfg, r)
         IN RBx_Init_Priority_From(i + 1, s.m, cfg, s.ret)

interrupt_RBx_Init_Priority(m, cfg) ==
    IF IsNull(cfg) THEN Ret(m, E_NOT_OK)
    ELSE RBx_Init_Priority_From(1, m, cfg, E_OK)

interrupt_RBx_Init(m, cfg) ==
    IF IsNull(cfg) THEN Ret(m, E_NOT_OK)
    ELSE RBx_Init_From(1, m, cfg, E_OK)

\* A DeInit without the NULL check of its argument, which it does not read.
interrupt_RBx_DeInit_Unchecked(m, cfg) == Interrupt_RBx_Disable(m, cfg)

interrupt_RBx_DeInit(m, cfg) ==
    IF IsNull(cfg) THEN Ret(m, E_NOT_OK)
    ELSE Interrupt_RBx_Disable(m, cfg)

\* ------------------------------------------------------------------------
\* Internal peripheral sources: the interrupt part of each driver's Init
\* (clear the flag, store the callback, GIE and PEIE, set the enable bit).
\* The EUSART flags TXIF/RCIF are read-only and are not cleared.
\* ------------------------------------------------------------------------
Peripheral_Interrupt_Init(m, p, handler) ==
    LET b == BitOf(p)
        m1 == IF p \in {"EUSART_TX", "EUSART_RX"} THEN m
              ELSE [m EXCEPT !.xIF[b] = 0]
    IN [m1 EXCEPT !.PER_InterruptHandler[p] = handler,
                  !.GIE = 1, !.PEIE = 1, !.xIE[b] = 1]

\* ------------------------------------------------------------------------
\* Timer1 driver.  TMR1H:TMR1L holds the value last written to it, or 0 after
\* an overflow; the counting between two steps is not followed.
\* ------------------------------------------------------------------------
timer1_init(m, timer) ==
    IF IsNull(timer) THEN Ret(m, E_NOT_OK)
    ELSE LET m1 == Peripheral_Interrupt_Init(m, "TMR1", timer.TMR_InterruptHandler)
             m2 == [m1 EXCEPT !.timer1_preload = timer.timer1_preload_value,
                              !.TMR1ON = 1]
         IN Ret(TMR1_Load(m2, timer.timer1_preload_value), E_OK)

timer1_Write_Value(m, timer, data) ==
    IF IsNull(timer) THEN Ret(m, E_NOT_OK)
    ELSE Ret(TMR1_Load(m, data), E_OK)

\* ------------------------------------------------------------------------
\* EUSART driver.  The baud rate registers, the 9-bit modes and the pins are
\* not followed.  Loading TXREG clears TXIF and TRMT.
\* ------------------------------------------------------------------------
EUSART_ASYNC_Init(m, obj) ==
    IF IsNull(obj) THEN Ret(m, E_NOT_OK)
    ELSE LET m0 == [m EXCEPT !.SPEN = 0]
             \* EUSART_ASYNC_TX_Init
             m1 == IF obj.usart_tx_enable = 1
                   THEN IF obj.usart_tx_interrupt_enable = 1
                        THEN [m0 EXCEPT
                                !.TXEN = 1,
                                !.PER_InterruptHandler["EUSART_TX"] =
                                    obj.EUSART_TX_DefaultInterruptHandler,
                                !.GIE = 1, !.PEIE = 1, !.xIE["TX"] = 1]
                        ELSE [m0 EXCEPT !.TXEN = 1, !.xIE["TX"] = 0]
                   ELSE m0
             \* EUSART_ASYNC_RX_Init
             m2 == IF obj.usart_rx_enable = 1
                   THEN IF obj.usart_rx_interrupt_enable = 1
                        THEN [m1 EXCEPT
                                !.CREN = 1,
                                !.PER_InterruptHandler["EUSART_RX"] =
                                    obj.EUSART_RX_DefaultInterruptHandler,
                                !.GIE = 1, !.PEIE = 1, !.xIE["RC"] = 1]
                        ELSE [m1 EXCEPT !.CREN = 1, !.xIE["RC"] = 0]
                   ELSE m1
         IN Ret([m2 EXCEPT !.SPEN = 1], E_OK)

EUSART_ASYNC_DeInit(m, obj) ==
    IF IsNull(obj) THEN Ret(m, E_NOT_OK)
    ELSE Ret([m EXCEPT !.SPEN = 0], E_OK)

\* After the loop `while(!TRMT);` has ended, that is with TRMT = 1.
EUSART_ASYNC_Write_Byte_Blocking(m, data) ==
    Ret([m EXCEPT !.xIE["TX"] = 1, !.TXREG = data, !.xIF["TX"] = 0, !.TRMT = 0],
        E_OK)

EUSART_ASYNC_Write_Byte_NonBlocking(m, data) ==
    IF m.TRMT = 1
    THEN Ret([m EXCEPT !.xIE["TX"] = 1, !.TXREG = data, !.xIF["TX"] = 0,
                       !.TRMT = 0], E_OK)
    ELSE Ret(m, E_OK)

\* ------------------------------------------------------------------------
\* Inputs of the foreground calls
\* ------------------------------------------------------------------------
Pin(n, dir) == [port |-> "PORTB", pin |-> n, direction |-> dir]

INTxPin(src) == CASE src = "INT0" -> 0 [] src = "INT1" -> 1 [] src = "INT2" -> 2

INTxCfg(src, edge, handler) ==
    [External_InterruptHandler |-> handler, source |-> src,
     priority |-> Interrupt_High_Priority, edge |-> edge,
     mcu_pin |-> Pin(INTxPin(src), GPIO_DIRECTION_INPUT)]

RBxCfg(n, high, low) ==
    [External_InterruptHandler_High |-> high,
     External_InterruptHandler_Low |-> low, mcu_pin |-> Pin(n, GPIO_DIRECTION_INPUT),
     priority |-> Interrupt_High_Priority]

INTxCfgs ==
    {INTxCfg(s, e, h) : s \in INTxSources,
                        e \in {Interrupt_Falling_Edge, Interrupt_Rising_Edge},
                        h \in {NULL, "cbA"}}

RBxCfgs == {RBxCfg(n, h, l) : n \in 4..7, h \in {NULL, "cbHigh"}, l \in {NULL, "cbLow"}}

\* The inputs used where all kinds of sources are exercised together.
MixedINTxCfgs == {c \in INTxCfgs : c.edge = Interrupt_Falling_Edge}

MixedPins == {"RB4", "RB7"}

MixedRBxCfgs ==
    {c \in RBxCfgs : /\ PinName(c.mcu_pin.pin) \in MixedPins
                     /\ (c.External_InterruptHandler_High = NULL)
                            = (c.External_InterruptHandler_Low = NULL)}

\* Configurations with a source outside INT0..INT2 or a pin outside RB4..RB7,
\* every other field taking each of its values.  "INT3" stands for any value
\* of the source field outside the enumeration.
UndefinedSource == "INT3"

AnyINTxCfgs ==
    {[External_InterruptHandler |-> h, source |-> s,
      priority |-> Interrupt_High_Priority, edge |-> e,
      mcu_pin |-> Pin(0, GPIO_DIRECTION_INPUT)] :
        h \in {NULL, "cbA"}, s \in INTxSources \cup {UndefinedSource},
        e \in {Interrupt_Falling_Edge, Interrupt_Rising_Edge}}

AnyRBxCfgs ==
    {[External_InterruptHandler_High |-> h, External_InterruptHandler_Low |-> l,
      mcu_pin |-> Pin(n, GPIO_DIRECTION_INPUT),
      priority |-> Interrupt_High_Priority] :
        h \in {NULL, "cbHigh"}, l \in {NULL, "cbLow"}, n \in {0, 3, 4, 7}}

\* The configurations the calls are made with: one defined and the undefined
\* source, one pin outside and one inside RB4..RB7.
ErrINTxCfgs == {c \in AnyINTxCfgs : c.source \in {"INT1", UndefinedSource}}

ErrRBxCfgs == {c \in AnyRBxCfgs : c.mcu_pin.pin \in {3, 4}}

\* DeInit reads the source only.
ErrDeInitINTxCfgs ==
    {c \in ErrINTxCfgs : /\ c.External_InterruptHandler = NULL
                         /\ c.edge = Interrupt_Falling_Edge}

\* Every priority assignment of the priority build: INT0, INT1, INT2 and the
\* on-change pin RB4 with callbacks, each at either level.
PriorityLevels == {Interrupt_Low_Priority, Interrupt_High_Priority}

PrioINTxCfgs ==
    {[INTxCfg(s, Interrupt_Falling_Edge, "cbA") EXCEPT !.priority = p] :
        s \in INTxSources, p \in PriorityLevels}

PrioRBxCfgs ==
    {[RBxCfg(4, "cbHigh", "cbLow") EXCEPT !.priority = p] : p \in PriorityLevels}

\* DeInit reads nothing but the source (INTx) or nothing at all (RBx).
DeInitINTxCfgs == {INTxCfg(s, Interrupt_Falling_Edge, NULL) : s \in INTxSources}

DeInitRBxCfgs == {RBxCfg(4, NULL, NULL)}

\* ------------------------------------------------------------------------
\* Foreground calls.  Foreground code runs only while no ISR is active.
\* ------------------------------------------------------------------------
\* History of the calls made as one step: for each INTx source the callback
\* passed to the last interrupt_INTx_Init that passed one, whether the last
\* successful call on the source was interrupt_INTx_Init (and not
\* interrupt_INTx_DeInit), the callback and the enable bit that the last call
\* to overwrite a registered callback found, and the last call that returned
\* E_NOT_OK.  For the on-change group: whether the last call was
\* interrupt_RBx_Init (and not interrupt_RBx_DeInit), and the pins that had a
\* rising callback when an Init for another pin followed a DeInit.  For the
\* EUSART: the driver function during which TXIE last went from 0 to 1.
EusartOps ==
    {"EUSART_ASYNC_Init", "EUSART_ASYNC_DeInit",
     "EUSART_ASYNC_Write_Byte_Blocking", "EUSART_ASYNC_Write_Byte_NonBlocking"}

NoCall == [op |-> "none", cfg |-> NullPtr]

NoHist ==
    [registered |-> [s \in INTxSources |-> NULL],
     active |-> [s \in INTxSources |-> FALSE],
     replaced |-> [s \in INTxSources |-> [old |-> NULL, en |-> 0]],
     rejected |-> NoCall,
     edges |-> [p \in RBPins |-> << >>],
     latest |-> "none",
     group |-> [on |-> FALSE, revived |-> {}],
     enabler |-> "none"]

\* The history after the call op(cfg), made in state m, with result r.
NoteCall(op, cfg, m, r) ==
    [registered |->
        [s \in INTxSources |->
            IF /\ op = "interrupt_INTx_Init"
               /\ ~IsNull(cfg)
               /\ cfg.source = s
               /\ cfg.External_InterruptHandler # NULL
            THEN cfg.External_InterruptHandler
            ELSE hist.registered[s]],
     active |->
        [s \in INTxSources |->
            IF /\ op \in {"interrupt_INTx_Init", "interrupt_INTx_DeInit"}
               /\ ~IsNull(cfg)
               /\ cfg.source = s
               /\ r.ret = E_OK
            THEN op = "interrupt_INTx_Init"
            ELSE hist.active[s]],
     replaced |->
        [s \in INTxSources |->
            IF /\ m.INTx_InterruptHandler[s] # NULL
               /\ r.m.INTx_InterruptHandler[s] # m.INTx_InterruptHandler[s]
            THEN [old |-> m.INTx_InterruptHandler[s], en |-> m.xIE[s]]
            ELSE hist.replaced[s]],
     rejected |-> IF r.ret = E_NOT_OK THEN [op |-> op, cfg |-> cfg]
                                      ELSE hist.rejected,
     edges |->
        [p \in RBPins |->
            IF /\ op = "interrupt_RBx_Init"
               /\ r.ret = E_OK
               /\ PinName(cfg.mcu_pin.pin) = p
            THEN << >>
            ELSE hist.edges[p]],
     latest |-> hist.latest,
     group |->
        IF IsNull(cfg) THEN hist.group
        ELSE IF op = "interrupt_RBx_Init"
        THEN [on |-> TRUE,
              revived |->
                 IF hist.group.on THEN hist.group.revived
                 ELSE {p \in RBPins \ {PinName(cfg.mcu_pin.pin)} :
                         m.RBx_InterruptHandler_High[p] # NULL}]
        ELSE IF op = "interrupt_RBx_DeInit"
        THEN [on |-> FALSE, revived |-> {}]
        ELSE hist.group,
     enabler |->
        IF /\ op \in EusartOps
           /\ m.xIE["TX"] = INTERRUPT_DISABLE
           /\ r.m.xIE["TX"] = INTERRUPT_ENABLE
        THEN op
        ELSE hist.enabler]

Foreground(r) ==
    /\ isr.phase = "idle"
    /\ fg = IdleFg
    /\ callsLeft > 0
    /\ mcu' = r.m
    /\ last' = r.ret
    /\ callsLeft' = callsLeft - 1
    /\ UNCHANGED <<isr, pass, fg, moved, stack, evLeft>>

Call(op, cfg, r) == Foreground(r) /\ hist' = NoteCall(op, cfg, mcu, r)

Call_INTx_Init(cfg) ==
    Call("interrupt_INTx_Init", cfg, interrupt_INTx_Init(mcu, cfg))

Call_INTx_DeInit(cfg) ==
    Call("interrupt_INTx_DeInit", cfg, interrupt_INTx_DeInit(mcu, cfg))

Call_RBx_Init(cfg) ==
    Call("interrupt_RBx_Init", cfg, interrupt_RBx_Init(mcu, cfg))

Call_INTx_Init_Priority(cfg) ==
    Call("interrupt_INTx_Init", cfg, interrupt_INTx_Init_Priority(mcu, cfg))

Call_RBx_Init_Priority(cfg) ==
    Call("interrupt_RBx_Init", cfg, interrupt_RBx_Init_Priority(mcu, cfg))

Call_RBx_DeInit(cfg) ==
    Call("interrupt_RBx_DeInit", cfg, interrupt_RBx_DeInit(mcu, cfg))

Call_Peripheral_Init(p, h) ==
    Call("Peripheral_Init", NullPtr, Ret(Peripheral_Interrupt_Init(mcu, p, h), E_OK))

\* A callback calls interrupt_INTx_Init (to change the edge or the callback
\* of a source, for instance).
CB_Call_INTx_Init(cfg) ==
    /\ isr.phase = "cb"
    /\ callsLeft > 0
    /\ LET r == interrupt_INTx_Init(mcu, cfg) IN
         /\ mcu' = r.m
         /\ last' = r.ret
         /\ hist' = NoteCall("interrupt_INTx_Init", cfg, mcu, r)
    /\ callsLeft' = callsLeft - 1
    /\ UNCHANGED <<isr, pass, fg, moved, stack, evLeft>>

\* A usart_t object stands in the cfg place of the history; the writes take
\* no object.
Call_EUSART_ASYNC_Init(obj) ==
    Call("EUSART_ASYNC_Init", NullPtr, EUSART_ASYNC_Init(mcu, obj))

Call_EUSART_ASYNC_DeInit(obj) ==
    Call("EUSART_ASYNC_DeInit", NullPtr, EUSART_ASYNC_DeInit(mcu, obj))

Call_EUSART_ASYNC_Write_Byte_Blocking(data) ==
    /\ mcu.TRMT = 1
    /\ Call("EUSART_ASYNC_Write_Byte_Blocking", NullPtr,
            EUSART_ASYNC_Write_Byte_Blocking(mcu, data))

Call_EUSART_ASYNC_Write_Byte_NonBlocking(data) ==
    Call("EUSART_ASYNC_Write_Byte_NonBlocking", NullPtr,
         EUSART_ASYNC_Write_Byte_NonBlocking(mcu, data))

\* The TX callback sends the next byte.
CB_EUSART_ASYNC_Write_Byte_NonBlocking(data) ==
    /\ isr.phase = "cb"
    /\ CurEntry.src = "EUSART_TX"
    /\ callsLeft > 0
    /\ LET r == EUSART_ASYNC_Write_Byte_NonBlocking(mcu, data) IN
         /\ mcu' = r.m
         /\ last' = r.ret
         /\ hist' = NoteCall("EUSART_ASYNC_Write_Byte_NonBlocking", NullPtr, mcu, r)
    /\ callsLeft' = callsLeft - 1
    /\ UNCHANGED <<isr, pass, fg, moved, stack, evLeft>>

\* The transmit shift register has sent its last bit: TRMT is set.
TSR_Empty ==
    /\ evLeft > 0
    /\ mcu.TRMT = 0
    /\ mcu' = [mcu EXCEPT !.TRMT = 1]
    /\ evLeft' = evLeft - 1
    /\ UNCHANGED <<isr, pass, fg, last, moved, stack, hist, callsLeft>>

Call_timer1_init(timer) ==
    Call("timer1_init", NullPtr, timer1_init(mcu, timer))

\* The Timer1 callback calls timer1_Write_Value.
CB_timer1_Write_Value(timer, data) ==
    /\ isr.phase = "cb"
    /\ CurEntry.src = "TMR1"
    /\ callsLeft > 0
    /\ LET r == timer1_Write_Value(mcu, timer, data) IN
         /\ mcu' = r.m
         /\ last' = r.ret
    /\ callsLeft' = callsLeft - 1
    /\ UNCHANGED <<isr, pass, fg, moved, stack, hist, evLeft>>

\* Timer1, running, rolls over from 0xFFFF to 0x0000: TMR1IF is set.
Timer1Overflow ==
    /\ evLeft > 0
    /\ mcu.TMR1ON = 1
    /\ mcu.xIF["TMR1"] = 0
    /\ mcu' = [mcu EXCEPT !.xIF["TMR1"] = 1, !.TMR1H = 0, !.TMR1L = 0]
    /\ pass' = NoteHw("TMR1")
    /\ fg' = NoteHwFg("TMR1")
    /\ evLeft' = evLeft - 1
    /\ UNCHANGED <<isr, last, moved, stack, hist, callsLeft>>

\* interrupt_INTx_Init statement by statement: an interrupt can be taken
\* between any two statements once GIE is set.
FG_Begin_INTx_Init(cfg) ==
    /\ isr.phase = "idle"
    /\ fg = IdleFg
    /\ callsLeft > 0
    /\ ~IsNull(cfg)
    /\ fg' = [op |-> "interrupt_INTx_Init", cfg |-> cfg, step |-> 1,
              ret |-> E_OK, hw |-> {}]
    /\ callsLeft' = callsLeft - 1
    /\ UNCHANGED <<mcu, isr, pass, last, moved, stack, hist, evLeft>>

FG_Step_INTx_Init ==
    /\ isr.phase = "idle"
    /\ fg.op = "interrupt_INTx_Init"
    /\ fg.step <= INTx_Init_Steps
    /\ LET s == INTx_Init_Step(fg.step, mcu, fg.cfg, fg.ret) IN
         /\ mcu' = s.m
         /\ fg' = [fg EXCEPT !.step = @ + 1, !.ret = s.ret,
                             !.hw = IF fg.step = 7 THEN {} ELSE @]
    /\ UNCHANGED <<isr, pass, last, moved, stack, hist, evLeft, callsLeft>>

\* return ret;
FG_Return_INTx_Init ==
    /\ isr.phase = "idle"
    /\ fg.op = "interrupt_INTx_Init"
    /\ fg.step > INTx_Init_Steps
    /\ fg' = IdleFg
    /\ last' = fg.ret
    /\ hist' = IF fg.ret = E_OK /\ fg.cfg.source \in INTxSources
               THEN [hist EXCEPT !.active[fg.cfg.source] = TRUE]
               ELSE hist
    /\ UNCHANGED <<mcu, isr, pass, moved, stack, evLeft, callsLeft>>

\* ------------------------------------------------------------------------
\* Specifications
\* ------------------------------------------------------------------------
InitWith(levelSets, events, calls) ==
    /\ mcu \in {ResetState(levels) : levels \in levelSets}
    /\ isr = IdleIsr
    /\ pass = NoPass
    /\ fg = IdleFg
    /\ last = E_OK
    /\ moved = {}
    /\ stack = << >>
    /\ hist = NoHist
    /\ evLeft = events
    /\ callsLeft = calls

AllLow == [p \in RBPins |-> 0]

\* External sources and the ADC together.
Init == InitWith({AllLow}, MaxEvents, MaxCalls)

Next ==
    \/ ISR_Enter
    \/ ISR_Test
    \/ ISR_ScanEnd
    \/ ISR_LeafClear
    \/ ISR_LeafCall
    \/ ISR_CallbackReturn
    \/ ISR_Return
    \/ \E s \in INTxSources : HwRaise(s)
    \/ HwRaise("AD")
    \/ \E p \in MixedPins : PinChange(p)
    \/ RBGlitch
    \/ \E cfg \in MixedINTxCfgs : Call_INTx_Init(cfg)
    \/ \E cfg \in DeInitINTxCfgs : Call_INTx_DeInit(cfg)
    \/ \E cfg \in MixedRBxCfgs : Call_RBx_Init(cfg)
    \/ \E cfg \in DeInitRBxCfgs : Call_RBx_DeInit(cfg)
    \/ \E h \in {NULL, "cbADC"} : Call_Peripheral_Init("ADC", h)

Spec == Init /\ [][Next]_vars

\* Pin levels at reset: no pin, one pin or every pin of the group High.
ResetLevels ==
    {l \in [RBPins -> {0, 1}] : Cardinality({p \in RBPins : l[p] = 1}) \in {0, 1, 4}}

\* The on-change group alone.
InitRBx == InitWith(ResetLevels, MaxPinEvents, MaxRBxCalls)

NextRBx ==
    \/ ISR_Enter
    \/ ISR_Test
    \/ ISR_ScanEnd
    \/ ISR_LeafClear
    \/ ISR_LeafCall
    \/ ISR_CallbackReturn
    \/ ISR_Return
    \/ \E p \in RBPins : PinChange(p)
    \/ RBGlitch
    \/ \E cfg \in RBxCfgs : Call_RBx_Init(cfg)
    \/ \E cfg \in DeInitRBxCfgs : Call_RBx_DeInit(cfg)

SpecRBx == InitRBx /\ [][NextRBx]_vars

\* The internal peripheral sources alone.
InitPER == InitWith({AllLow}, MaxEvents, MaxCalls)

NextPER ==
    \/ ISR_Enter
    \/ ISR_Test
    \/ ISR_ScanEnd
    \/ ISR_LeafClear
    \/ ISR_LeafCall
    \/ ISR_CallbackReturn
    \/ ISR_Return
    \/ \E p \in Peripherals : HwRaise(BitOf(p))
    \/ \E p \in Peripherals, h \in {NULL, "cbPER"} : Call_Peripheral_Init(p, h)

SpecPER == InitPER /\ [][NextPER]_vars

\* interrupt_INTx_Init statement by statement, interleaved with hardware
\* events and interrupts.
InitSteps == InitWith({AllLow}, MaxInitEvents, MaxInitCalls)

NextSteps ==
    \/ ISR_Enter
    \/ ISR_Test
    \/ ISR_ScanEnd
    \/ ISR_LeafClear
    \/ ISR_LeafCall
    \/ ISR_CallbackReturn
    \/ ISR_Return
    \/ \E s \in INTxSources : HwRaise(s)
    \/ \E cfg \in INTxCfgs : FG_Begin_INTx_Init(cfg)
    \/ FG_Step_INTx_Init
    \/ FG_Return_INTx_Init

SpecSteps == InitSteps /\ [][NextSteps]_vars

\* Registering, disabling and registering again: INT0..INT2 with two
\* different callbacks on the falling edge, and with no callback on the
\* rising edge.
ReplaceCfgs ==
    {INTxCfg(s, Interrupt_Falling_Edge, h) : s \in INTxSources, h \in {"cbA", "cbB"}}

InitReplace == InitWith({AllLow}, MaxReplaceEvents, MaxReplaceCalls)

NextReplace ==
    \/ ISR_Enter
    \/ ISR_Test
    \/ ISR_ScanEnd
    \/ ISR_LeafClear
    \/ ISR_LeafCall
    \/ ISR_CallbackReturn
    \/ ISR_Return
    \/ \E s \in INTxSources : HwRaise(s)
    \/ \E cfg \in ReplaceCfgs : Call_INTx_Init(cfg)
    \/ \E s \in INTxSources :
          Call_INTx_Init(INTxCfg(s, Interrupt_Rising_Edge, NULL))
    \/ \E cfg \in DeInitINTxCfgs : Call_INTx_DeInit(cfg)

SpecReplace == InitReplace /\ [][NextReplace]_vars

\* Any number of INTx events while interrupt_INTx_Init (statement by
\* statement) and interrupt_INTx_DeInit are called.  The CPU keeps executing:
\* a pending enabled interrupt is taken and the dispatcher, the leaf routines
\* and the callbacks run to their end.
\* The first and the last INTx source of the scan are exercised.
LiveSources == {"INT0", "INT2"}

InitLive == InitWith({AllLow}, 0, MaxLiveCalls)

Dispatch ==
    \/ ISR_Enter
    \/ ISR_Test
    \/ ISR_ScanEnd
    \/ ISR_LeafClear
    \/ ISR_LeafCall
    \/ ISR_CallbackReturn
    \/ ISR_Return

NextLive ==
    \/ Dispatch
    \/ \E s \in LiveSources : HwEvent(s)
    \/ \E cfg \in {c \in MixedINTxCfgs : c.source \in LiveSources} :
          FG_Begin_INTx_Init(cfg)
    \/ FG_Step_INTx_Init
    \/ FG_Return_INTx_Init
    \/ \E cfg \in {c \in DeInitINTxCfgs : c.source \in LiveSources} :
          Call_INTx_DeInit(cfg)

SpecLive == InitLive /\ [][NextLive]_vars /\ WF_vars(Dispatch)

\* The leaf routine of every internal peripheral source, each reached through
\* its own `if`.
InitLeaf == InitWith({AllLow}, MaxEvents, MaxCalls)

NextLeaf ==
    \/ \E p \in Peripherals : ISR_EnterLeaf(p)
    \/ ISR_Test
    \/ ISR_ScanEnd
    \/ ISR_LeafClear
    \/ ISR_LeafCall
    \/ ISR_CallbackReturn
    \/ ISR_Return
    \/ \E p \in Peripherals : HwRaise(BitOf(p))
    \/ \E p \in Peripherals, h \in {NULL, "cbPER"} : Call_Peripheral_Init(p, h)

SpecLeaf == InitLeaf /\ [][NextLeaf]_vars

\* The priority build: two vectors, the high one preempting the low one.
InitPrio == InitWith({AllLow}, MaxPrioEvents, MaxPrioCalls)

NextPrio ==
    \/ ISR_EnterHigh
    \/ ISR_EnterLow
    \/ ISR_Test
    \/ ISR_ScanEnd
    \/ ISR_LeafClear
    \/ ISR_LeafCall
    \/ ISR_CallbackReturn
    \/ ISR_Return
    \/ \E s \in INTxSources : HwRaise(s)
    \/ PinChange("RB4")
    \/ \E cfg \in PrioINTxCfgs : Call_INTx_Init_Priority(cfg)
    \/ \E cfg \in PrioRBxCfgs : Call_RBx_Init_Priority(cfg)

SpecPrio == InitPrio /\ [][NextPrio]_vars

\* Flat mode with callbacks that call interrupt_INTx_Init.
NestCfgs == {c \in MixedINTxCfgs : c.External_InterruptHandler # NULL}

InitNest == InitWith({AllLow}, MaxNestEvents, MaxNestCalls)

NextNest ==
    \/ Dispatch
    \/ ISR_EnterNested
    \/ \E s \in INTxSources : HwRaise(s)
    \/ \E cfg \in NestCfgs : Call_INTx_Init(cfg)
    \/ \E cfg \in NestCfgs : CB_Call_INTx_Init(cfg)

SpecNest == InitNest /\ [][NextNest]_vars

\* The four public functions of the external interrupt driver called with
\* absent, undefined and incomplete configurations.
InitErr == InitWith({AllLow}, MaxErrEvents, MaxErrCalls)

NextErr ==
    \/ Dispatch
    \/ \E s \in INTxSources : HwRaise(s)
    \/ RBGlitch
    \/ \E cfg \in ErrINTxCfgs \cup {NullPtr} : Call_INTx_Init(cfg)
    \/ \E cfg \in ErrDeInitINTxCfgs \cup {NullPtr} : Call_INTx_DeInit(cfg)
    \/ \E cfg \in ErrRBxCfgs \cup {NullPtr} : Call_RBx_Init(cfg)
    \/ \E cfg \in DeInitRBxCfgs \cup {NullPtr} : Call_RBx_DeInit(cfg)

SpecErr == InitErr /\ [][NextErr]_vars

\* The on-change group initialised, disabled and initialised again while
\* its pins move: two pins of the group, callbacks present or absent.
GroupPins == {"RB4", "RB5"}

GroupRBxCfgs ==
    {c \in RBxCfgs : /\ PinName(c.mcu_pin.pin) \in GroupPins
                     /\ (c.External_InterruptHandler_High = NULL)
                            = (c.External_InterruptHandler_Low = NULL)}

InitGroup == InitWith({AllLow}, MaxGroupEvents, MaxGroupCalls)

NextGroup ==
    \/ Dispatch
    \/ \E p \in GroupPins : PinChangeNoted(p)
    \/ \E cfg \in GroupRBxCfgs : Call_RBx_Init(cfg)
    \/ \E cfg \in DeInitRBxCfgs : Call_RBx_DeInit(cfg)

SpecGroup == InitGroup /\ [][NextGroup]_vars

\* Timer1 with a preload: overflows, TMR1_ISR reached through its `if`, and
\* a callback that may write the timer.
Timer1Cfgs ==
    {[TMR_InterruptHandler |-> h, timer1_preload_value |-> v] :
        h \in {NULL, "cbTMR1"}, v \in {3036, 65280}}

InitTmr1 == InitWith({AllLow}, MaxTmr1Events, MaxTmr1Calls)

NextTmr1 ==
    \/ ISR_EnterLeaf("TMR1")
    \/ ISR_Test
    \/ ISR_ScanEnd
    \/ ISR_LeafClear
    \/ ISR_LeafCall
    \/ ISR_CallbackReturn
    \/ ISR_Return
    \/ Timer1Overflow
    \/ \E timer \in Timer1Cfgs \cup {NullPtr} : Call_timer1_init(timer)
    \/ \E timer \in Timer1Cfgs, data \in {4660, 255} :
          CB_timer1_Write_Value(timer, data)

SpecTmr1 == InitTmr1 /\ [][NextTmr1]_vars

\* The EUSART: Init, DeInit and the byte writes, TXIF and RCIF set by
\* hardware, EUSART_TX_ISR and EUSART_RX_ISR each reached through its `if`.
UsartCfgs ==
    {[usart_tx_enable |-> 1, usart_tx_interrupt_enable |-> ti,
      usart_rx_enable |-> 1, usart_rx_interrupt_enable |-> ri,
      EUSART_TX_DefaultInterruptHandler |-> h,
      EUSART_RX_DefaultInterruptHandler |-> "cbRX"] :
        ti \in {0, 1}, ri \in {0, 1}, h \in {NULL, "cbTX"}}

InitUsart == InitWith({AllLow}, MaxUsartEvents, MaxUsartCalls)

NextUsart ==
    \/ \E p \in {"EUSART_TX", "EUSART_RX"} : ISR_EnterLeaf(p)
    \/ ISR_Test
    \/ ISR_ScanEnd
    \/ ISR_LeafClear
    \/ ISR_LeafCall
    \/ ISR_CallbackReturn
    \/ ISR_Return
    \/ \E b \in {"TX", "RC"} : HwRaise(b)
    \/ TSR_Empty
    \/ \E obj \in UsartCfgs \cup {NullPtr} : Call_EUSART_ASYNC_Init(obj)
    \/ \E obj \in UsartCfgs \cup {NullPtr} : Call_EUSART_ASYNC_DeInit(obj)
    \/ Call_EUSART_ASYNC_Write_Byte_Blocking(65)
    \/ Call_EUSART_ASYNC_Write_Byte_NonBlocking(66)
    \/ CB_EUSART_ASYNC_Write_Byte_NonBlocking(67)

SpecUsart == InitUsart /\ [][NextUsart]_vars

\* ------------------------------------------------------------------------
\* Properties
\* ------------------------------------------------------------------------
\* What a finished pass did, read from its history.
PassDone == isr.phase = "ret"

EnteredPending(src) == BitOf(src) \in pass.xIE /\ BitOf(src) \in pass.xIF

Leaves(src) == {i \in DOMAIN pass.trace : pass.trace[i].src = src}

Callbacks(src) == {i \in Leaves(src) : pass.trace[i].cb # NULL}

C2_FlagClearedBeforeCallback ==
    isr.phase = "cb" =>
        LET e == ScanList[isr.pos] IN
            (e.src \in INTxSources \cup RBPins /\ BitOf(e.src) \notin pass.hwLeaf)
                => mcu.xIF[BitOf(e.src)] = 0

\* An on-change callback is running and the shared flag reads 0.
C2_Witness ==
    /\ isr.phase = "cb"
    /\ ScanList[isr.pos].src \in RBPins
    /\ pass.hwLeaf = {}
    /\ mcu.xIF["RB"] = 0

\* Leaf invocations of pin k for the given level in the finished pass.
EdgeLeaves(k, level) == {i \in Leaves(k) : pass.trace[i].level = level}

\* C3: on-change edge inference for one pin RBk while the other pins are
\* stable: on a shared-flag event the rising leaf runs exactly when the
\* sampled level is High and the memory holds Unknown/Low (RBk_ISR_Flag = 1),
\* the falling leaf exactly when the level is Low and the memory holds High
\* (RBk_ISR_Flag = 0); the memory then records the new level, and no leaf
\* runs and the memory is unchanged when the level matches the memory.
C3_EdgeInferencePerPin ==
    (PassDone /\ EnteredPending("RB4") /\ "RB" \notin pass.hw) =>
        \A k \in RBPins :
            moved \subseteq {k} =>
                LET lvl == pass.levels[k]
                    mem == pass.mem[k]
                IN IF lvl = mem
                   THEN /\ Cardinality(EdgeLeaves(k, lvl)) = 1
                        /\ EdgeLeaves(k, 1 - lvl) = {}
                        /\ mcu.RBx_ISR_Flag[k] = 1 - lvl
                   ELSE /\ Leaves(k) = {}
                        /\ mcu.RBx_ISR_Flag[k] = mem

\* C4: on every shared-flag event all four pins are evaluated: a single pass
\* updates the edge memory and runs the leaf of every pin whose level differs
\* from what its memory records, in the order RB4, RB5, RB6, RB7.
C4_EveryChangedPinServiced ==
    (PassDone /\ EnteredPending("RB4") /\ "RB" \notin pass.hw) =>
        \A k \in RBPins :
            pass.levels[k] = pass.mem[k] =>
                /\ EdgeLeaves(k, pass.levels[k]) # {}
                /\ mcu.RBx_ISR_Flag[k] = 1 - pass.levels[k]

\* The order of service the documentation declares, written independently
\* of the scan.
DeclaredOrder == <<"INT0", "INT1", "INT2", "RB4", "RB5", "RB6", "RB7", "ADC">>

Rank(src) == CHOOSE i \in DOMAIN DeclaredOrder : DeclaredOrder[i] = src

\* C5: fixed scan order in flat mode: the callbacks of one pass run in the
\* order INT0, INT1, INT2, RB4..RB7, internal peripherals; the callback that
\* is running is the last one started, every earlier one has returned; and
\* when an INTx source with a callback is pending at entry, no later
\* source's callback starts before that source's callback has run.
C5_FixedScanOrder ==
    /\ \A i, j \in DOMAIN pass.trace :
          (i < j /\ pass.trace[i].cb # NULL /\ pass.trace[j].cb # NULL)
              => Rank(pass.trace[i].src) <= Rank(pass.trace[j].src)
    /\ isr.phase = "cb" =>
          /\ pass.trace # << >>
          /\ pass.trace[Len(pass.trace)].src = ScanList[isr.pos].src
          /\ pass.trace[Len(pass.trace)].cb # NULL
    /\ \A s \in INTxSources :
          (EnteredPending(s) /\ mcu.INTx_InterruptHandler[s] # NULL) =>
              \A j \in DOMAIN pass.trace :
                  (pass.trace[j].cb # NULL /\ Rank(pass.trace[j].src) > Rank(s))
                      => \E i \in Callbacks(s) : i < j

\* The second callback of a pass is running; both sources were pending at
\* entry and the first callback, of an earlier source, has returned.
C5_Witness ==
    /\ isr.phase = "cb"
    /\ Len(pass.trace) = 2
    /\ pass.trace[1].cb # NULL
    /\ pass.trace[1].src \in INTxSources
    /\ Rank(pass.trace[1].src) < Rank(pass.trace[2].src)
    /\ EnteredPending(pass.trace[1].src)
    /\ EnteredPending(pass.trace[2].src)

\* C6: flat mode covers every compile-time-enabled internal peripheral
\* source: a pass entered with the source's enable bit and flag both set
\* runs that source's leaf routine.
C6_EveryEnabledPeripheralDispatched ==
    PassDone =>
        \A p \in Peripherals :
            (EnteredPending(p) /\ BitOf(p) \notin pass.hw) => Leaves(p) # {}

\* C7: a missing callback is not an error.  For an INTx source with an empty
\* slot, a pass entered with its enable and flag set runs its leaf once,
\* leaves the flag 0 and calls nothing, and every later INTx source or ADC
\* pending at entry is served after it.  For an on-change pin whose
\* transition is pending at entry and whose slot for that direction is
\* empty, the pass leaves the shared flag 0, calls nothing for the pin and
\* still serves a pending ADC.
C7_MissingCallbackNotAnError ==
    PassDone =>
        /\ \A s \in INTxSources :
              (/\ mcu.INTx_InterruptHandler[s] = NULL
               /\ EnteredPending(s)
               /\ s \notin pass.hw) =>
                  /\ mcu.xIF[s] = 0
                  /\ Cardinality(Leaves(s)) = 1
                  /\ Callbacks(s) = {}
                  /\ \A t \in INTxSources \cup {"ADC"} :
                        (Rank(t) > Rank(s) /\ EnteredPending(t)) =>
                            \E i \in Leaves(s), j \in Leaves(t) : i < j
        /\ \A k \in RBPins :
              (/\ EnteredPending(k)
               /\ pass.levels[k] = pass.mem[k]
               /\ LeafHandler(mcu, Entry(k, pass.levels[k])) = NULL
               /\ "RB" \notin pass.hw) =>
                  /\ mcu.xIF["RB"] = 0
                  /\ Callbacks(k) = {}
                  /\ EnteredPending("ADC") => Leaves("ADC") # {}

\* A finished pass that served an INTx source with an empty slot and, after
\* it, a later source that was pending too.
C7_Witness ==
    /\ PassDone
    /\ pass.hw = {}
    /\ \E s \in INTxSources, t \in INTxSources \cup {"ADC"} :
          /\ mcu.INTx_InterruptHandler[s] = NULL
          /\ EnteredPending(s) /\ EnteredPending(t)
          /\ Rank(s) < Rank(t)
          /\ Leaves(s) # {} /\ Leaves(t) # {}
          /\ mcu.xIF[s] = 0

\* C8: while the rising/falling callback of an on-change pin runs, the pin's
\* edge memory already records the level that triggered it, so the test of
\* the same pin at the same level is false; and no pass runs the same
\* transition of a pin twice.
C8_EdgeMemoryBeforeCallback ==
    /\ isr.phase = "cb" =>
          LET e == ScanList[isr.pos] IN
              e.src \in RBPins =>
                  /\ mcu.RBx_ISR_Flag[e.src] = 1 - e.level
                  /\ ~(/\ mcu.PORTB[e.src] = e.level
                       /\ mcu.RBx_ISR_Flag[e.src] = e.level)
    /\ \A k \in RBPins, lvl \in {0, 1} : Cardinality(EdgeLeaves(k, lvl)) <= 1

\* An on-change callback is running, the pin is still at the level that
\* triggered it and the shared flag has been raised again.
C8_Witness ==
    /\ isr.phase = "cb"
    /\ ScanList[isr.pos].src \in RBPins
    /\ mcu.PORTB[ScanList[isr.pos].src] = ScanList[isr.pos].level
    /\ mcu.xIF["RB"] = 1

\* interrupt_INTx_Init of source s with a non-empty callback is in progress.
InitOf(s) ==
    /\ fg.op = "interrupt_INTx_Init"
    /\ fg.cfg.source = s
    /\ fg.cfg.External_InterruptHandler # NULL

\* C9: interrupt_INTx_Init(cfg) with a defined source and a non-empty
\* callback: after its first statement and until its last the source's
\* enable bit is 0 and no leaf or callback of the source runs; before the
\* enable bit is set the slot holds cfg's callback, the edge-select bit equals
\* cfg.edge and the flag is 0; when the function returns it returns E_OK, the
\* enable bit is 1 and the edge-select bit equals cfg.edge, and the flag is 0
\* unless hardware raised an event after the flag was cleared.
C9_InitStepOrder ==
    \A s \in INTxSources :
        InitOf(s) =>
            /\ fg.step \in 2..INTx_Init_Steps =>
                  /\ mcu.xIE[s] = INTERRUPT_DISABLE
                  /\ ~(/\ isr.phase \in {"leaf", "call", "cb"}
                       /\ ScanList[isr.pos].src = s)
            /\ fg.step = INTx_Init_Steps =>
                  /\ mcu.INTx_InterruptHandler[s] = fg.cfg.External_InterruptHandler
                  /\ mcu.INTEDG[s] = fg.cfg.edge
                  /\ s \notin fg.hw => mcu.xIF[s] = INTERRUPT_NOT_OCCUR
            /\ (fg.step > INTx_Init_Steps /\ isr.phase = "idle") =>
                  /\ fg.ret = E_OK
                  /\ mcu.xIE[s] = INTERRUPT_ENABLE
                  /\ mcu.INTEDG[s] = fg.cfg.edge
                  /\ mcu.INTx_InterruptHandler[s] = fg.cfg.External_InterruptHandler
                  /\ s \notin fg.hw => mcu.xIF[s] = INTERRUPT_NOT_OCCUR

\* interrupt_INTx_Init with a falling-edge configuration is about to return
\* after hardware events have occurred: the source is enabled, its flag is 0.
C9_Witness ==
    \E s \in INTxSources :
        /\ InitOf(s)
        /\ fg.step > INTx_Init_Steps
        /\ isr.phase = "idle"
        /\ fg.hw = {}
        /\ evLeft < MaxInitEvents
        /\ callsLeft = 0
        /\ mcu.xIF[s] = INTERRUPT_NOT_OCCUR
        /\ mcu.xIE[s] = INTERRUPT_ENABLE
        /\ fg.cfg.edge = Interrupt_Falling_Edge

\* C10: DeInit disables only: interrupt_INTx_DeInit(cfg) changes nothing but
\* the enable bit of cfg's source, which becomes 0, and interrupt_RBx_DeInit
\* nothing but the shared on-change enable bit.
C10_DeInitDisablesOnly ==
    [][ /\ \A cfg \in DeInitINTxCfgs :
              Call_INTx_DeInit(cfg) =>
                  /\ mcu' = [mcu EXCEPT !.xIE[cfg.source] = INTERRUPT_DISABLE]
                  /\ last' = E_OK
        /\ \A cfg \in DeInitRBxCfgs :
              Call_RBx_DeInit(cfg) =>
                  /\ mcu' = [mcu EXCEPT !.xIE["RB"] = INTERRUPT_DISABLE]
                  /\ last' = E_OK ]_vars

\* An INTx source is disabled while its callback slot, its falling-edge
\* selection and a pending flag are still in place.
C10_Witness ==
    \E s \in INTxSources :
        /\ mcu.xIE[s] = INTERRUPT_DISABLE
        /\ mcu.INTx_InterruptHandler[s] # NULL
        /\ mcu.INTEDG[s] = Interrupt_Falling_Edge
        /\ mcu.xIF[s] = INTERRUPT_OCCUR
        /\ callsLeft = 0

\* The callback the running dispatcher has just called.
Running == pass.trace[Len(pass.trace)]

InCallback(src) == isr.phase = "cb" /\ CurEntry.src = src

\* C11: a callback registered by interrupt_INTx_Init replaces the one
\* registered before.  Each INTx slot holds the callback of the last
\* interrupt_INTx_Init on that source that passed one (so interrupt_INTx_DeInit
\* leaves the slot alone and the slot still holds the earlier callback until
\* the second Init), and every dispatch of the source invokes that callback,
\* never an earlier one.
C11_LastRegisteredCallbackRuns ==
    \A s \in INTxSources :
        /\ mcu.INTx_InterruptHandler[s] = hist.registered[s]
        /\ InCallback(s) => Running.cb = hist.registered[s]

\* cbA was registered and the source disabled when Init registered cbB; the
\* source is dispatched and cbB is running.
C11_Witness ==
    \E s \in INTxSources :
        /\ hist.replaced[s] = [old |-> "cbA", en |-> INTERRUPT_DISABLE]
        /\ hist.registered[s] = "cbB"
        /\ InCallback(s)
        /\ Running.cb = "cbB"

\* interrupt_INTx_Init is executing on source src.
InitRunning(src) == fg.op = "interrupt_INTx_Init" /\ fg.cfg.source = src

InLeaf(src) == isr.phase \in {"leaf", "call", "cb"} /\ CurEntry.src = src

\* C12: from a successful interrupt_INTx_Init with a callback until the next
\* interrupt_INTx_DeInit on the source (or the next Init, which starts by
\* disabling it), whenever the flag is set the callback is eventually
\* invoked, however many events occur; and the leaf routine of a source runs
\* only after a successful Init that no DeInit has followed, or while Init is
\* executing.
C12_EventsServicedWhileInitialised ==
    /\ [](\A s \in INTxSources : InLeaf(s) => hist.active[s] \/ InitRunning(s))
    /\ \A s \in INTxSources :
          (/\ hist.active[s]
           /\ mcu.INTx_InterruptHandler[s] # NULL
           /\ mcu.xIF[s] = INTERRUPT_OCCUR)
             ~> (InCallback(s) \/ ~hist.active[s] \/ InitRunning(s))

\* The callback of an initialised source is running and the hardware has set
\* the flag again in the meantime.
C12_Witness ==
    \E s \in INTxSources :
        /\ hist.active[s]
        /\ ~InitRunning(s)
        /\ InCallback(s)
        /\ s \in pass.hwLeaf
        /\ mcu.xIF[s] = INTERRUPT_OCCUR

\* C16: in every state, each of interrupt_INTx_Init, interrupt_INTx_DeInit,
\* interrupt_RBx_Init and interrupt_RBx_DeInit called with a NULL pointer
\* returns E_NOT_OK and leaves every register and every static variable as
\* it was.
C16_NullConfigurationRejected ==
    /\ interrupt_INTx_Init(mcu, NullPtr) = Ret(mcu, E_NOT_OK)
    /\ interrupt_INTx_DeInit(mcu, NullPtr) = Ret(mcu, E_NOT_OK)
    /\ interrupt_RBx_Init(mcu, NullPtr) = Ret(mcu, E_NOT_OK)
    /\ interrupt_RBx_DeInit(mcu, NullPtr) = Ret(mcu, E_NOT_OK)

\* interrupt_RBx_DeInit(NULL) has returned E_NOT_OK while the on-change group
\* was initialised and enabled.
C16_Witness ==
    /\ hist.rejected = [op |-> "interrupt_RBx_DeInit", cfg |-> NullPtr]
    /\ last = E_NOT_OK
    /\ callsLeft = 0
    /\ mcu.xIE["RB"] = INTERRUPT_ENABLE
    /\ mcu.RBx_InterruptHandler_High["RB4"] # NULL

\* C17: in every state, interrupt_INTx_Init and interrupt_INTx_DeInit return
\* E_NOT_OK for a source outside INT0..INT2, and interrupt_RBx_Init returns
\* E_NOT_OK for a pin outside RB4..RB7, whatever the other fields hold.
C17_UndefinedSourceRejected ==
    /\ \A cfg \in AnyINTxCfgs :
          cfg.source \notin INTxSources =>
              /\ interrupt_INTx_Init(mcu, cfg).ret = E_NOT_OK
              /\ interrupt_INTx_DeInit(mcu, cfg).ret = E_NOT_OK
    /\ \A cfg \in AnyRBxCfgs :
          cfg.mcu_pin.pin \notin 4..7 =>
              interrupt_RBx_Init(mcu, cfg).ret = E_NOT_OK

\* interrupt_INTx_Init has returned E_NOT_OK for an undefined source that
\* came with a callback.
C17_Witness ==
    /\ hist.rejected.op = "interrupt_INTx_Init"
    /\ ~IsNull(hist.rejected.cfg)
    /\ hist.rejected.cfg.source = UndefinedSource
    /\ hist.rejected.cfg.External_InterruptHandler # NULL
    /\ last = E_NOT_OK
    /\ callsLeft < MaxErrCalls

\* A step of interrupt_INTx_Init rejects its input: the pin configuration,
\* or the setter of the callback slot.
StepRejects(m, cfg) ==
    \/ Interrupt_INTx_Pin_Init(m, cfg).ret = E_NOT_OK
    \/ /\ cfg.source \in INTxSources
       /\ INTn_SetInterruptHandler(m, cfg.source, cfg.External_InterruptHandler).ret
             = E_NOT_OK

\* C18: in every state and for every configuration, interrupt_INTx_Init
\* returns E_NOT_OK when one of its steps rejects its input.
C18_FailedStepReported ==
    \A cfg \in AnyINTxCfgs :
        StepRejects(mcu, cfg) => interrupt_INTx_Init(mcu, cfg).ret = E_NOT_OK

\* C20: flat mode, on-change group: a pass entered with RBIE and RBIF both
\* set, during which the hardware raises no further on-change event, returns
\* with RBIF cleared, whether or not a pin's level differs from its edge
\* memory; so the dispatcher is not entered again for the same event.
C20_PassClearsSharedFlag ==
    (/\ PassDone
     /\ EnteredPending("RB4")
     /\ "RB" \notin pass.hw)
        => mcu.xIF["RB"] = INTERRUPT_NOT_OCCUR

\* C19: while the callback of an internal peripheral source is running, the
\* source's flag is 0 unless the hardware has set it again since the leaf
\* routine was entered: every peripheral leaf routine clears its own flag
\* before it calls the callback.
C19_PeripheralLeafClearsFlag ==
    \A p \in Peripherals :
        (InCallback(p) /\ BitOf(p) \notin pass.hwLeaf)
            => mcu.xIF[BitOf(p)] = INTERRUPT_NOT_OCCUR

\* The priority level an entry point serves.
LevelOf(vec) == IF vec = "high" THEN 1 ELSE 0

\* At the entry of the running pass the source was enabled and flagged (for an
\* on-change pin: and its level was one its edge memory lets through).
Requested(src) ==
    /\ EnteredPending(src)
    /\ src \in RBPins => pass.levels[src] = pass.mem[src]

\* C13: priority build: when an entry point returns, every external source
\* that was enabled and pending at its entry and is assigned to its level
\* has had its leaf routine invoked by it, whatever level interrupt_INTx_Init
\* and interrupt_RBx_Init assigned to INT1, INT2 and the on-change group.
C13_EachLevelServesItsSources ==
    (PassDone /\ isr.vec \in {"high", "low"}) =>
        \A src \in INTxSources \cup {"RB4"} :
            (Requested(src) /\ SourcePriority(mcu, BitOf(src)) = LevelOf(isr.vec))
                => Leaves(src) # {}

\* C14: priority build: when the callback of a low-priority source resumes
\* after the high-priority vector has interrupted it, the callback of the
\* high-priority source has run to completion in between.
C14_HighCallbackRunsBeforeLowResumes ==
    (isr.vec = "low" /\ isr.phase = "cb") =>
        \A n \in pass.nested :
            n.at = isr =>
                /\ n.vec = "high"
                /\ \E i \in DOMAIN n.trace : n.trace[i].cb # NULL

\* C15: at most one activation of a dispatcher is in progress: no suspended
\* activation belongs to the dispatcher that is running, whatever the
\* interleaving of hardware events, foreground calls and calls made by
\* callbacks.
C15_NoReentry ==
    \A i \in DOMAIN stack : stack[i].isr.vec # isr.vec

\* Pin p is at the level its last dispatch left it: the dispatcher has no
\* edge to report for it.
AtRest(p) == pass.levels[p] # pass.mem[p]

\* The only change of pin p since the last successful interrupt_RBx_Init for
\* it is one Low-to-High transition, and no pin has changed after it.
FirstRiseSinceInit(p) == hist.edges[p] = <<1>> /\ hist.latest = p

\* C21: after interrupt_RBx_Init for pin RBk with a rising callback, the
\* pass entered for the first Low-to-High transition of RBk (the other pins
\* of the group at rest, no further change during the pass) invokes the
\* rising callback of RBk, whatever calls and pin changes came before that
\* Init.
C21_FirstRiseAfterInitInvokesRising ==
    PassDone =>
        \A p \in GroupPins :
            (/\ EnteredPending(p)
             /\ "RB" \notin pass.hw
             /\ FirstRiseSinceInit(p)
             /\ mcu.RBx_InterruptHandler_High[p] # NULL
             /\ \A q \in RBPins \ {p} : AtRest(q))
                => \E i \in Callbacks(p) : pass.trace[i].level = 1

ExternalEnables(m) == [b \in ExternalBits |-> m.xIE[b]]

CallbackSlots(m) ==
    <<m.INTx_InterruptHandler, m.RBx_InterruptHandler_High,
      m.RBx_InterruptHandler_Low>>

\* C23: a call of interrupt_INTx_Init or interrupt_RBx_Init that returns
\* E_NOT_OK leaves the enable bits of INT0, INT1, INT2 and of the on-change
\* group and every callback slot as they were before the call.
C23_StateUnchangedOnError ==
    [][(/\ callsLeft' = callsLeft - 1
        /\ last' = E_NOT_OK
        /\ hist'.rejected.op \in {"interrupt_INTx_Init", "interrupt_RBx_Init"})
          => (/\ ExternalEnables(mcu') = ExternalEnables(mcu)
              /\ CallbackSlots(mcu') = CallbackSlots(mcu))]_vars

\* The dispatcher has an edge of pin p to report: the sampled level is the
\* one its edge memory expects next.
EdgeToReport(p) == pass.levels[p] = pass.mem[p]

SlotFor(p, level) ==
    IF level = 1 THEN mcu.RBx_InterruptHandler_High[p]
                 ELSE mcu.RBx_InterruptHandler_Low[p]

\* C24: the on-change enable is shared by RB4..RB7.  After
\* interrupt_RBx_DeInit (for whichever pin) no leaf routine of any of the
\* four pins runs until interrupt_RBx_Init is called; after
\* interrupt_RBx_Init (for whichever pin) a pass entered for an edge of a pin
\* calls that pin's leaf routine with the callback its slot holds, whether
\* the Init was for that pin or for another one.
C24_GroupEnableShared ==
    /\ \A p \in RBPins : InLeaf(p) => hist.group.on
    /\ hist.group.on = (mcu.xIE["RB"] = INTERRUPT_ENABLE)
    /\ PassDone =>
          \A p \in GroupPins :
              (/\ EnteredPending(p)
               /\ "RB" \notin pass.hw
               /\ EdgeToReport(p)
               /\ \A q \in RBPins \ {p} : AtRest(q))
                 => \E i \in Leaves(p) :
                       pass.trace[i].cb = SlotFor(p, pass.levels[p])

\* RB4 had its callbacks when the group was disabled; an Init for RB5
\* enabled the group again, RB4 rose and its rising callback is running.
C24_Witness ==
    /\ InCallback("RB4")
    /\ Running.cb = "cbHigh"
    /\ "RB4" \in hist.group.revived
    /\ hist.edges["RB5"] = << >>

\* C25: interrupt_RBx_Init for pin RBk (k in 4..7) stores the two callbacks
\* of its argument in the two slots of pin k, a NULL one included, and
\* leaves the slots of the other three pins, the three INTx slots and the
\* edge memory of every pin as they were.
C25_InitWritesOnlyItsPinSlots ==
    \A cfg \in RBxCfgs :
        LET r == interrupt_RBx_Init(mcu, cfg)
            k == PinName(cfg.mcu_pin.pin)
        IN /\ r.m.RBx_InterruptHandler_High[k] = cfg.External_InterruptHandler_High
           /\ r.m.RBx_InterruptHandler_Low[k] = cfg.External_InterruptHandler_Low
           /\ \A q \in RBPins \ {k} :
                 /\ r.m.RBx_InterruptHandler_High[q] = mcu.RBx_InterruptHandler_High[q]
                 /\ r.m.RBx_InterruptHandler_Low[q] = mcu.RBx_InterruptHandler_Low[q]
           /\ r.m.INTx_InterruptHandler = mcu.INTx_InterruptHandler
           /\ r.m.RBx_ISR_Flag = mcu.RBx_ISR_Flag

\* The rising edge of RB5 was dispatched; an Init for RB5 without
\* callbacks followed its last change and left its slots empty, while
\* RB4 keeps its callbacks and the edge memory of both pins is the one their
\* dispatches left.
C25_Witness ==
    /\ SlotFor("RB4", 1) = "cbHigh"
    /\ SlotFor("RB4", 0) = "cbLow"
    /\ SlotFor("RB5", 1) = NULL
    /\ SlotFor("RB5", 0) = NULL
    /\ hist.latest = "RB5"
    /\ hist.edges["RB5"] = << >>
    /\ mcu.RBx_ISR_Flag["RB5"] = 0
    /\ callsLeft = 0

\* The dispatcher calls the leaf routine of on-change pin p in this step.
DispatchOf(p) ==
    /\ isr.phase = "test"
    /\ isr'.phase = "leaf"
    /\ CurEntry.src = p

\* C26: rising and falling dispatches of an on-change pin alternate, the
\* first one being a rising one.  The edge memory of the pin names the
\* direction that can be dispatched next: it names rising at reset, a
\* dispatch happens only in the direction it names and turns it to the
\* opposite direction, and no other step (hardware event, Init, DeInit,
\* leaf routine, callback) changes it.
C26_DirectionsAlternate ==
    /\ \A p \in RBPins : mcu.RBx_ISR_Flag[p] = 1
    /\ [][\A p \in RBPins :
            IF DispatchOf(p)
            THEN /\ mcu.RBx_ISR_Flag[p] = CurEntry.level
                 /\ mcu'.RBx_ISR_Flag[p] = 1 - CurEntry.level
            ELSE mcu'.RBx_ISR_Flag[p] = mcu.RBx_ISR_Flag[p]]_vars

\* RB4 rose and fell after its Init, and the falling edge is being
\* dispatched: the rising one was dispatched before it.
C26_Witness ==
    /\ InLeaf("RB4")
    /\ CurEntry.level = 0
    /\ hist.edges["RB4"] = <<1, 0>>
    /\ mcu.RBx_ISR_Flag["RB4"] = 1

\* The flag of src is cleared in this step by the first statement of its
\* leaf routine or by a statement of interrupt_INTx_Init.
ClearedOnPurpose(src) ==
    \/ isr.phase = "leaf" /\ CurEntry.src = src
    \/ InitRunning(src)

\* C27: flat mode.  The flag of INT0..INT2 that hardware sets while the
\* callback of the same source is running is cleared by nothing but the
\* first statement of the source's leaf routine (or a new
\* interrupt_INTx_Init): it is still set when the leaf routine returns, and
\* unless the source is disabled or initialised again in the meantime the
\* dispatcher is entered again and calls the leaf routine, hence the
\* callback, once more.
C27_EventDuringCallbackIsKept ==
    /\ [][\A s \in LiveSources :
            (mcu.xIF[s] = INTERRUPT_OCCUR /\ mcu'.xIF[s] = INTERRUPT_NOT_OCCUR)
                => ClearedOnPurpose(s)]_vars
    /\ \A s \in LiveSources :
          (InCallback(s) /\ mcu.xIF[s] = INTERRUPT_OCCUR)
              ~> \/ isr.phase = "call" /\ CurEntry.src = s
                 \/ InitRunning(s)
                 \/ mcu.xIE[s] = INTERRUPT_DISABLE

\* The callback of a source has run and returned, the source's event
\* arrived while it ran, and the flag is still set as the scan goes on.
C27_Witness ==
    \E s \in LiveSources :
        /\ isr.phase = "test"
        /\ Callbacks(s) # {}
        /\ s \in pass.hwLeaf
        /\ mcu.xIF[s] = INTERRUPT_OCCUR
        /\ mcu.xIE[s] = INTERRUPT_ENABLE
        /\ fg = IdleFg

\* The 16-bit value in TMR1H:TMR1L.
TMR1_Value(m) == m.TMR1H * 256 + m.TMR1L

\* C28: TMR1_ISR clears TMR1IF, writes the stored preload to TMR1H:TMR1L and
\* then calls the callback: the callback starts with TMR1IF cleared by the
\* routine and with the preload in the timer register, and the timer register
\* is the same after the return of the callback as before it.
C28_ReloadBeforeCallback ==
    [][/\ (isr.phase = "call" /\ isr'.phase = "cb" /\ CurEntry.src = "TMR1")
            => /\ "TMR1" \notin pass.hwLeaf => mcu'.xIF["TMR1"] = INTERRUPT_NOT_OCCUR
               /\ TMR1_Value(mcu') = mcu'.timer1_preload
       /\ (isr.phase = "cb" /\ isr'.phase = "test" /\ CurEntry.src = "TMR1")
            => TMR1_Value(mcu') = TMR1_Value(mcu)]_vars

\* C29: when EUSART_ASYNC_DeInit, called with an object, returns (the serial
\* port enable going from 1 to 0), the TX and the RX interrupt enable bits
\* are 0.
C29_DeInitDisablesInterrupts ==
    [][(/\ callsLeft' = callsLeft - 1
        /\ mcu.SPEN = 1
        /\ mcu'.SPEN = 0)
          => (/\ mcu'.xIE["TX"] = INTERRUPT_DISABLE
              /\ mcu'.xIE["RC"] = INTERRUPT_DISABLE)]_vars

\* The driver functions that set the TX interrupt enable bit.
TxEnablers ==
    {"EUSART_ASYNC_Init", "EUSART_ASYNC_Write_Byte_Blocking",
     "EUSART_ASYNC_Write_Byte_NonBlocking"}

\* C30: the dispatcher calls EUSART_TX_ISR only with TXIE set; the TX
\* callback starts with TXIE cleared by the routine; and TXIE goes from 0 to
\* 1 only in a call of EUSART_ASYNC_Init or of one of the two byte writes
\* (never in a step of the ISR, in a hardware step or in another call).
\* Hence each call of the TX callback is preceded by such a call that has
\* not been followed by another call of the callback.
C30_TxCallbackOncePerWrite ==
    [][/\ (isr.phase = "test" /\ isr'.phase = "leaf" /\ CurEntry.src = "EUSART_TX")
            => mcu.xIE["TX"] = INTERRUPT_ENABLE
       /\ (isr.phase = "call" /\ isr'.phase = "cb" /\ CurEntry.src = "EUSART_TX")
            => mcu'.xIE["TX"] = INTERRUPT_DISABLE
       /\ (mcu.xIE["TX"] = INTERRUPT_DISABLE /\ mcu'.xIE["TX"] = INTERRUPT_ENABLE)
            => /\ callsLeft' = callsLeft - 1
               /\ hist'.enabler \in TxEnablers]_vars

\* A blocking write enabled the TX interrupt, TXREG emptied, EUSART_TX_ISR
\* cleared TXIE and the TX callback is running with TXIF still set.
C30_Witness ==
    /\ InCallback("EUSART_TX")
    /\ Running.cb = "cbTX"
    /\ hist.enabler = "EUSART_ASYNC_Write_Byte_Blocking"
    /\ mcu.xIE["TX"] = INTERRUPT_DISABLE
    /\ mcu.xIF["TX"] = INTERRUPT_OCCUR

====
